---- MODULE Spec2Model ----
(***************************************************************************)
(* Model of the contributor categorizer: the classification client with    *)
(* its rate limiter (src/src/api/client.py), the stage-1 pipeline with its *)
(* checkpoint file (src/src/processing/categorizer.py) and the input       *)
(* validation (src/src/utils/validation.py).                               *)
(*                                                                         *)
(* Python strings are tuples of one-character strings, so that strip(),    *)
(* lower(), "in" and split() are computed and not assumed.                 *)
(* Times are in tenths of a second.                                        *)
(***************************************************************************)
EXTENDS Integers, Sequences, FiniteSets, TLC

(***************************************************************************)
(* Strings                                                                 *)
(***************************************************************************)
Other == <<"O", "t", "h", "e", "r">>
Lawyers == <<"L", "a", "w", "y", "e", "r", "s">>
Engineer == <<"E", "n", "g", "i", "n", "e", "e", "r">>
Business == <<"B", "u", "s", "i", "n", "e", "s", "s">>
NotProvided == <<"N", "o", "t", " ", "p", "r", "o", "v", "i", "d", "e", "d">>
CategoryToken == <<"C", "a", "t", "e", "g", "o", "r", "y", ":">>

\* str.lower() on the letters the model's messages use
LowerChar(c) ==
    CASE c = "A" -> "a" [] c = "E" -> "e" [] c = "I" -> "i" [] c = "L" -> "l"
      [] c = "M" -> "m" [] c = "P" -> "p" [] c = "R" -> "r" [] c = "T" -> "t"
      [] OTHER -> c

Lower(s) == [k \in 1..Len(s) |-> LowerChar(s[k])]

\* sub occurs in s at position k (1-based)
OccursAt(s, sub, k) ==
    /\ k >= 1
    /\ k + Len(sub) - 1 <= Len(s)
    /\ \A j \in 1..Len(sub) : s[k + j - 1] = sub[j]

\* Python's "sub in s"
Contains(s, sub) == \E k \in 1..(Len(s) + 1) : OccursAt(s, sub, k)

IsSpace(c) == c \in {" ", "\n", "\t"}

\* str.strip()
Strip(s) ==
    LET keep == {k \in 1..Len(s) : ~IsSpace(s[k])}
    IN  IF keep = {} THEN <<>>
        ELSE LET lo == CHOOSE k \in keep : \A m \in keep : k <= m
                 hi == CHOOSE k \in keep : \A m \in keep : k >= m
             IN  SubSeq(s, lo, hi)

\* s.split(tok)[-1]: what follows the last occurrence of tok (s itself when
\* tok does not occur)
SplitLast(s, tok) ==
    LET at == {k \in 1..Len(s) : OccursAt(s, tok, k)}
    IN  IF at = {} THEN s
        ELSE LET last == CHOOSE k \in at : \A m \in at : k >= m
             IN  SubSeq(s, last + Len(tok), Len(s))

(***************************************************************************)
(* Configuration (src/src/config/settings.py)                              *)
(***************************************************************************)
base_delay == 15
default_max_retries == 5


\* random.uniform(0, 0.2) and random.uniform(0, 1): the draws the model tries
Jitter0 == {0, 1}
Jitter1 == {0, 9}

\* From TimeCap on, the time since the last request changes no decision of the
\* limiter (min_delay < base_delay + 2), so the model stops counting there.
TimeCap == base_delay + 2

\* How long one call of the external service may take
Durations == {0, 10, 20}

(***************************************************************************)
(* The external service: what client.messages.create may do                *)
(***************************************************************************)
MsgRateLimit == <<"R", "a", "t", "e", " ", "l", "i", "m", "i", "t", " ",
                  "e", "x", "c", "e", "e", "d", "e", "d">>
Msg529 == <<"E", "r", "r", "o", "r", " ", "c", "o", "d", "e", ":", " ", "5", "2", "9">>
MsgLimitUpper == <<"L", "I", "M", "I", "T">>
MsgApiError == <<"A", "P", "I", " ", "e", "r", "r", "o", "r">>
\* str(IndexError) of response.content[0] on an empty content list
MsgIndexError == <<"l", "i", "s", "t", " ", "i", "n", "d", "e", "x", " ", "o", "u", "t",
                   " ", "o", "f", " ", "r", "a", "n", "g", "e">>
\* str() of an exception out of wait_if_needed: the ValueError of time.sleep
MsgSleepError == <<"s", "l", "e", "e", "p", " ", "l", "e", "n", "g", "t", "h", " ",
                   "m", "u", "s", "t", " ", "b", "e", " ", "n", "o", "n", "-",
                   "n", "e", "g", "a", "t", "i", "v", "e">>

TextCategoryLawyers == CategoryToken \o <<" ">> \o Lawyers
TextEngineer == Engineer \o <<" ">>
TextTwoTokens == CategoryToken \o <<" ">> \o Other \o <<"\n">> \o CategoryToken \o <<" ">> \o Lawyers
TextTokenOnly == <<" ">> \o CategoryToken \o <<" ">>

Response(content) == [kind |-> "response", content |-> content]
Raises(msg) == [kind |-> "exception", msg |-> msg]

ServiceOutcomes ==
    { Response(<<TextCategoryLawyers>>), Response(<<TextEngineer>>), Response(<<>>),
      Response(<<TextTwoTokens>>), Response(<<TextTokenOnly>>),
      Response(<<TextEngineer, TextCategoryLawyers>>),
      Raises(MsgRateLimit), Raises(Msg529), Raises(MsgLimitUpper), Raises(MsgApiError) }

\* What the service did, in the words of the interface: an error whose message
\* holds "529", or "rate" or "limit" in any letter case, indicates throttling.
ThrottlingIndicating(msg) ==
    \/ Contains(msg, <<"5", "2", "9">>)
    \/ Contains(Lower(msg), <<"r", "a", "t", "e">>)
    \/ Contains(Lower(msg), <<"l", "i", "m", "i", "t">>)

(***************************************************************************)
(* State                                                                   *)
(***************************************************************************)
VARIABLES
    \* APIClient.categorize_contributor
    cpc,             \* "idle" | "wait" | "invoke" | "returned" | "raised"
    attempt,         \* the loop variable of the retry loop
    request,         \* the three fields formatted into the prompt
    result,          \* the returned category
    invocations,     \* calls of client.messages.create made by the current call
    throttled,       \* how many of them raised a throttling-indicating error
    last_outcome,    \* how the latest attempt ended: "none" | "response" |
                     \* "exception" (of the service call) | "limiter_exception"
    waits,           \* the attempt arguments of the wait_if_needed calls of the current call
    response,        \* what client.messages.create returned to the current call, if it did
    max_retries,     \* config.api.max_retries
    \* RateLimiter
    since_last,      \* time.time() - last_request_time, counted up to TimeCap
    slept,           \* length of the latest time.sleep, 0 when there was none
    \* the files
    file,            \* the checkpoint file (self.progress_file)
    interim,         \* the interim artifact as this run has written it
    \* ContributorCategorizer, one process per run
    pc,              \* where the run is
    input,           \* the input file of the run
    progress_save_interval,
    current_dataset_size,
    processed_indices,
    contributors,    \* row indices still to classify, in order
    i,               \* contributors handled so far by _process_contributors_sequential
    new_categories,  \* the list _process_contributors_sequential builds
    categories,      \* the label column _categorize_with_ai builds
    \* bookkeeping of the runs
    prev_run,        \* whether the previous run was terminated and, if so, its row
                     \* count and whether one of its checkpoint saves had failed
    failure,         \* the exception that ended the run, "none" when there is none
    log,             \* the side effects of the current run, in order
    \* direct use of the checkpoint store
    ck_start,        \* the checkpoint file before the first call
    ck_saves,        \* the _save_progress calls made, in order
    ck_load,         \* the latest _load_progress call, when no save followed it
    ck_cleanups,     \* the direct _cleanup_progress calls made, in order
    \* the taxonomy standardizer and stage 2
    canonical_categories,   \* config.categories.canonical_categories
    fuzzy_match_threshold,  \* config.processing.fuzzy_match_threshold
    matcher,         \* the SequenceMatcher fuzzywuzzy found installed
    cat,             \* the argument of a direct _standardize_single_category call
    standardized,    \* what that call returned
    again,           \* what the call on the returned value returned
    existing,        \* the dataset handed to standardize_existing_csv
    final,           \* the final artifact as this process has written it
    \* the paths of the files
    procs,           \* the calls of process_csv_file under way, by process
    accessed,        \* the files those calls have touched: who, how, which path
    generated        \* a direct call of _auto_generate_output_path and its result

clientVars == <<cpc, attempt, request, result, invocations, throttled, last_outcome, waits,
                response, max_retries>>
limiterVars == <<since_last, slept>>
fileVars == <<file, interim>>
runVars == <<pc, input, progress_save_interval, current_dataset_size, processed_indices,
             contributors, i, new_categories, categories>>
bookVars == <<prev_run, failure, log>>
storeVars == <<ck_start, ck_saves, ck_load, ck_cleanups>>
configVars == <<canonical_categories, fuzzy_match_threshold, matcher>>
stdVars == <<cat, standardized, again>>
stage2Vars == <<existing, final>>
pathVars == <<procs, accessed, generated>>
laterVars == <<configVars, stdVars, stage2Vars, pathVars>>
vars == <<clientVars, limiterVars, fileVars, runVars, bookVars, storeVars, laterVars>>

NoResult == <<"<", "n", "o", "n", "e", ">">>
NoRequest == [name |-> <<>>, employer |-> <<>>, occupation |-> <<>>]
\* no response yet; a response is the sequence of the texts of its content elements
NoResponse == <<<<"<", "n", "o", "n", "e", ">">>>>

(***************************************************************************)
(* RateLimiter.wait_if_needed (client.py 101-119)                          *)
(***************************************************************************)
RECURSIVE Pow2(_)
Pow2(n) == IF n <= 0 THEN 1 ELSE 2 * Pow2(n - 1)

Elapse(t, d) == IF t + d >= TimeCap THEN TimeCap ELSE t + d

\* Mutant of wait_time: a first attempt never sleeps
wait_time_NoSpacing(att, elapsed, jitter) ==
    IF att > 0 THEN base_delay * Pow2(att) + jitter ELSE 0

\* Mutant of wait_time: a retry waits like a first attempt after a fresh request
wait_time_NoBackoff(att, elapsed, jitter) ==
    IF att > 0
    THEN base_delay + jitter
    ELSE LET min_delay == base_delay + jitter
         IN  IF elapsed < min_delay THEN min_delay - elapsed ELSE 0

\* The length handed to time.sleep, or 0 when the call does not sleep.
\* jitter is the value random.uniform returned.
wait_time(att, elapsed, jitter) ==
    IF att > 0
    THEN base_delay * Pow2(att) + jitter
    ELSE LET min_delay == base_delay + jitter
         IN  IF elapsed < min_delay THEN min_delay - elapsed ELSE 0

(***************************************************************************)
(* APIClient.categorize_contributor (client.py 33-90)                      *)
(***************************************************************************)
\* client.py 47-48: employer if employer else 'Not provided'
\* None is modelled by the empty string, both are falsy
OrNotProvided(v) == IF v = <<>> THEN NotProvided ELSE v

\* s.split(tok)[1] when tok occurs: what follows the first occurrence of tok
SplitSecond(s, tok) ==
    LET at == {k \in 1..Len(s) : OccursAt(s, tok, k)}
    IN  IF at = {} THEN s
        ELSE LET first == CHOOSE k \in at : \A m \in at : k <= m
             IN  SubSeq(s, first + Len(tok), Len(s))

\* Mutant of ExtractCategory: the text after the first token is taken
ExtractCategory_AfterFirst(text) ==
    LET category == Strip(text)
    IN  IF Contains(category, CategoryToken)
        THEN Strip(SplitSecond(category, CategoryToken))
        ELSE category

\* client.py 64-68
ExtractCategory(text) ==
    LET category == Strip(text)
    IN  IF Contains(category, CategoryToken)
        THEN Strip(SplitLast(category, CategoryToken))
        ELSE category

\* client.py 75
IsThrottling(error_str) ==
    \/ Contains(error_str, <<"5", "2", "9">>)
    \/ Contains(Lower(error_str), <<"r", "a", "t", "e">>)
    \/ Contains(Lower(error_str), <<"l", "i", "m", "i", "t">>)

\* Mutant of LoopNext: a retry skips one value of the loop variable
LoopNext_SkipOne ==
    IF attempt + 2 <= max_retries
    THEN /\ attempt' = attempt + 2
         /\ cpc' = "wait"
         /\ result' = result
    ELSE /\ attempt' = attempt
         /\ cpc' = "returned"
         /\ result' = Other

\* client.py 52, 88-90: the for loop moves on to the next attempt, and falls
\* through to the final return when the range is exhausted
LoopNext ==
    IF attempt + 1 <= max_retries
    THEN /\ attempt' = attempt + 1
         /\ cpc' = "wait"
         /\ result' = result
    ELSE /\ attempt' = attempt
         /\ cpc' = "returned"
         /\ result' = Other

\* Mutant of HandleException: an error that is not throttling is raised again
HandleException_Reraise(error_str) ==
    IF IsThrottling(error_str)
    THEN IF attempt < max_retries
         THEN LoopNext
         ELSE /\ attempt' = attempt
              /\ cpc' = "returned"
              /\ result' = Other
    ELSE /\ attempt' = attempt
         /\ cpc' = "raised"
         /\ result' = result

\* Mutant of HandleException: the retry bound is one too small
HandleException_OneRetryLess(error_str) ==
    IF IsThrottling(error_str)
    THEN IF attempt < max_retries - 1
         THEN LoopNext
         ELSE /\ attempt' = attempt
              /\ cpc' = "returned"
              /\ result' = Other
    ELSE /\ attempt' = attempt
         /\ cpc' = "returned"
         /\ result' = Other

\* Mutant of HandleException: a throttling error is retried once more than
\* max_retries allows
HandleException_OneRetryMore(error_str) ==
    IF IsThrottling(error_str) /\ attempt < max_retries + 1
    THEN /\ attempt' = attempt + 1
         /\ cpc' = "wait"
         /\ result' = result
    ELSE /\ attempt' = attempt
         /\ cpc' = "returned"
         /\ result' = Other

\* Mutant of HandleException: every error is retried like a throttling error
HandleException_RetryAll(error_str) ==
    IF attempt < max_retries
    THEN LoopNext
    ELSE /\ attempt' = attempt
         /\ cpc' = "returned"
         /\ result' = Other

\* client.py 73-86: the except clause, for an exception whose str() is error_str
HandleException(error_str) ==
    IF IsThrottling(error_str)
    THEN IF attempt < max_retries
         THEN LoopNext
         ELSE /\ attempt' = attempt
              /\ cpc' = "returned"
              /\ result' = Other
    ELSE /\ attempt' = attempt
         /\ cpc' = "returned"
         /\ result' = Other

\* Mutant of StartCall: the loop variable is carried over from the last call
StartCall_KeepAttempt(name, employer, occupation) ==
    /\ request' = [name |-> name,
                   employer |-> OrNotProvided(employer),
                   occupation |-> OrNotProvided(occupation)]
    /\ attempt' = attempt
    /\ cpc' = "wait"
    /\ result' = NoResult
    /\ invocations' = 0
    /\ throttled' = 0
    /\ last_outcome' = "none"
    /\ response' = NoResponse
    /\ waits' = <<>>
    /\ max_retries' = max_retries

\* client.py 45-52: the call starts; the prompt is built and the loop entered
StartCall(name, employer, occupation) ==
    /\ request' = [name |-> name,
                   employer |-> OrNotProvided(employer),
                   occupation |-> OrNotProvided(occupation)]
    /\ attempt' = 0
    /\ cpc' = "wait"
    /\ result' = NoResult
    /\ invocations' = 0
    /\ throttled' = 0
    /\ last_outcome' = "none"
    /\ response' = NoResponse
    /\ waits' = <<>>
    /\ max_retries' = max_retries

\* client.py 55 with 101-119: one wait_if_needed(attempt); J0 and J1 are the
\* values random.uniform may return at attempt 0 and at a retry, R says
\* whether the limiter may raise (the call is inside the try block)
WaitWith(J0, J1, R) ==
    /\ cpc = "wait"
    /\ \E jitter \in (IF attempt > 0 THEN J1 ELSE J0), limiter_raises \in R :
         LET d == wait_time(attempt, since_last, jitter)
         IN  /\ waits' = Append(waits, attempt)
             /\ IF limiter_raises \/ d < 0
                THEN /\ HandleException(MsgSleepError)
                     /\ last_outcome' = "limiter_exception"
                     /\ UNCHANGED <<since_last, slept, response>>
                ELSE /\ slept' = d
                     /\ since_last' = 0
                     /\ cpc' = "invoke"
                     /\ UNCHANGED <<attempt, result, last_outcome, response>>
    /\ UNCHANGED <<request, invocations, throttled, max_retries,
                   fileVars, runVars, bookVars, storeVars, laterVars>>

WaitIfNeeded == WaitWith(Jitter0, Jitter1, BOOLEAN)

\* client.py 57-86: one call of the service and what the client makes of it;
\* the service does one of outcomes and takes one of durations
InvokeWith(outcomes, durations) ==
    /\ cpc = "invoke"
    /\ \E o \in outcomes, d \in durations :
         /\ invocations' = invocations + 1
         /\ since_last' = Elapse(since_last, d)
         /\ throttled' = IF o.kind = "exception" /\ ThrottlingIndicating(o.msg)
                         THEN throttled + 1 ELSE throttled
         /\ IF o.kind = "exception"
            THEN /\ HandleException(o.msg)
                 /\ last_outcome' = "exception"
                 /\ response' = response
            ELSE IF o.content = <<>>
            THEN /\ HandleException(MsgIndexError)
                 /\ last_outcome' = "exception"
                 /\ response' = o.content
            ELSE /\ result' = ExtractCategory(o.content[1])
                 /\ cpc' = "returned"
                 /\ attempt' = attempt
                 /\ last_outcome' = "response"
                 /\ response' = o.content
    /\ UNCHANGED <<request, waits, slept, max_retries,
                   fileVars, runVars, bookVars, storeVars, laterVars>>

InvokeService == InvokeWith(ServiceOutcomes, Durations)

(***************************************************************************)
(* Checkpoint store (categorizer.py 231-294)                               *)
(*                                                                         *)
(* A Python dict from row index to label is a function on a set of         *)
(* naturals.  The pickled file is a record: kind "absent" (no file),       *)
(* "unreadable" (open or pickle.load raises), "list" (a pickled object     *)
(* that is no dict), "legacy" (a bare index-to-label dict) or "envelope"   *)
(* (a dict with the key 'categories'); dataset_size is -1 and created_at   *)
(* is "missing" when the dict has no such key; created_at is "earlier" in  *)
(* a file found at the start and "now" in an envelope made since.          *)
(***************************************************************************)
EmptyMap == [k \in {} |-> Other]
MapSet(m, k, v) == [x \in (DOMAIN m) \cup {k} |-> IF x = k THEN v ELSE m[x]]

Missing == 0 - 1

AbsentFile == [kind |-> "absent", categories |-> EmptyMap,
               dataset_size |-> Missing, created_at |-> "missing"]
UnreadableFile == [kind |-> "unreadable", categories |-> EmptyMap,
                   dataset_size |-> Missing, created_at |-> "missing"]
ListFile == [kind |-> "list", categories |-> EmptyMap,
             dataset_size |-> Missing, created_at |-> "missing"]
LegacyFile(m) == [kind |-> "legacy", categories |-> m,
                  dataset_size |-> Missing, created_at |-> "missing"]
EnvelopeFile(m, n, t) == [kind |-> "envelope", categories |-> m,
                          dataset_size |-> n, created_at |-> t]

\* the object _load_progress_raw returns: {} ("empty"), a dict with the key
\* 'categories' ("dict"), or the unpickled object that is no dict ("list")
EmptyData == [shape |-> "empty", categories |-> EmptyMap,
              dataset_size |-> Missing, created_at |-> "missing"]

\* Mutant of _load_progress_raw: a legacy mapping gets no dataset_size
_load_progress_raw_NoLegacySize(f, read_ok) ==
    IF f.kind = "absent" THEN EmptyData
    ELSE IF f.kind = "unreadable" \/ ~read_ok THEN EmptyData
    ELSE IF f.kind = "legacy"
    THEN [shape |-> "dict", categories |-> f.categories,
          dataset_size |-> Missing, created_at |-> "missing"]
    ELSE IF f.kind = "envelope"
    THEN [shape |-> "dict", categories |-> f.categories,
          dataset_size |-> f.dataset_size, created_at |-> f.created_at]
    ELSE [shape |-> "list", categories |-> EmptyMap,
          dataset_size |-> Missing, created_at |-> "missing"]

\* categorizer.py 273-286; read_ok: open and pickle.load do not raise
_load_progress_raw(f, read_ok) ==
    IF f.kind = "absent" THEN EmptyData
    ELSE IF f.kind = "unreadable" \/ ~read_ok THEN EmptyData
    ELSE IF f.kind = "legacy"
    THEN [shape |-> "dict", categories |-> f.categories,
          dataset_size |-> Cardinality(DOMAIN f.categories), created_at |-> "missing"]
    ELSE IF f.kind = "envelope"
    THEN [shape |-> "dict", categories |-> f.categories,
          dataset_size |-> f.dataset_size, created_at |-> f.created_at]
    ELSE [shape |-> "list", categories |-> EmptyMap,
          dataset_size |-> Missing, created_at |-> "missing"]

\* progress_data.get('dataset_size', 0)
StoredSize(progress_data) ==
    IF progress_data.dataset_size = Missing THEN 0 ELSE progress_data.dataset_size

\* Mutant of _load_progress: the stored size is not compared
_load_progress_NoSizeCheck(f, expected_dataset_size, read_ok) ==
    LET progress_data == _load_progress_raw(f, read_ok)
    IN  IF progress_data.shape = "dict" THEN progress_data.categories ELSE EmptyMap

\* categorizer.py 252-271
_load_progress(f, expected_dataset_size, read_ok) ==
    LET progress_data == _load_progress_raw(f, read_ok)
    IN  IF progress_data.shape = "empty" THEN EmptyMap
        ELSE IF progress_data.shape = "list"
        THEN EmptyMap   \* an empty list is falsy, any other has no .get: caught
        ELSE IF StoredSize(progress_data) # expected_dataset_size THEN EmptyMap
        ELSE progress_data.categories

\* Mutant of _save_progress: every save stamps the envelope anew
_save_progress_Restamp(f, index, category, dataset_size, now, read_ok, write) ==
    LET raw == _load_progress_raw(f, read_ok)
        kept == IF raw.shape = "dict" THEN raw.categories ELSE EmptyMap
    IN  IF write = "open_failed" THEN f
        ELSE IF write = "dump_failed" THEN UnreadableFile
        ELSE EnvelopeFile(MapSet(kept, index, category), dataset_size, now)

\* Mutant of _save_progress: every save starts a fresh envelope
_save_progress_Overwrite(f, index, category, dataset_size, now, read_ok, write) ==
    IF write = "open_failed" THEN f
    ELSE IF write = "dump_failed" THEN UnreadableFile
    ELSE EnvelopeFile(MapSet(EmptyMap, index, category), dataset_size, now)

\* categorizer.py 231-250; now: datetime.now(); write: "ok", "open_failed"
\* (makedirs or open raises, the file is untouched) or "dump_failed"
\* (pickle.dump raises after open(..., 'wb') has truncated the file)
_save_progress(f, index, category, dataset_size, now, read_ok, write) ==
    LET raw == _load_progress_raw(f, read_ok)
        progress_data ==
            IF raw.shape = "dict" THEN raw
            ELSE [shape |-> "dict", categories |-> EmptyMap,
                  dataset_size |-> dataset_size, created_at |-> now]
        updated == MapSet(progress_data.categories, index, category)
    IN  IF write = "open_failed" THEN f
        ELSE IF write = "dump_failed" THEN UnreadableFile
        ELSE EnvelopeFile(updated, progress_data.dataset_size, progress_data.created_at)

\* how a read and a write of the file may end, when there is one (used) or
\* none
ReadOutcomes(used) == IF used THEN BOOLEAN ELSE {TRUE}
WriteOutcomes(used) == IF used THEN {"ok", "open_failed", "dump_failed"} ELSE {"ok"}

\* Mutant of _cleanup_progress: a call that finds no file leaves an empty one
_cleanup_progress_Touch(f, remove_ok) ==
    IF f.kind = "absent" THEN UnreadableFile
    ELSE IF remove_ok THEN AbsentFile
    ELSE f

\* Mutant of _cleanup_progress: the file is never removed
_cleanup_progress_Keep(f, remove_ok) == f

\* categorizer.py 288-294; remove_ok: os.remove does not raise
_cleanup_progress(f, remove_ok) ==
    IF f.kind = "absent" THEN f
    ELSE IF remove_ok THEN AbsentFile
    ELSE f

(***************************************************************************)
(* Input validation (validation.py 15-67, categorizer.py 51-59)            *)
(***************************************************************************)
MaxRows == 2

GoodInput(n) == [exists |-> TRUE, isfile |-> TRUE, csv_ext |-> TRUE, head_ok |-> TRUE,
                 parse_ok |-> TRUE, has_name |-> TRUE, nrows |-> n, all_null |-> FALSE]

Inputs ==
    { GoodInput(n) : n \in 1..MaxRows } \cup
    { [GoodInput(1) EXCEPT !.exists = FALSE],
      [GoodInput(1) EXCEPT !.isfile = FALSE],
      [GoodInput(1) EXCEPT !.csv_ext = FALSE],
      [GoodInput(1) EXCEPT !.head_ok = FALSE],
      [GoodInput(2) EXCEPT !.parse_ok = FALSE],
      [GoodInput(1) EXCEPT !.has_name = FALSE],
      GoodInput(0),
      [GoodInput(2) EXCEPT !.all_null = TRUE] }

\* validation.py 15-38
validate_csv_file(f) ==
    IF ~f.exists THEN "ValidationError"
    ELSE IF ~f.isfile THEN "ValidationError"
    ELSE IF ~f.csv_ext THEN "ValidationError"
    ELSE IF ~f.head_ok THEN "ValidationError"
    ELSE "ok"

\* Mutant of validate_required_columns: an empty dataframe is let through
validate_required_columns_NoEmptyCheck(f) ==
    IF ~f.has_name THEN "ValidationError"
    ELSE IF f.all_null THEN "ValidationError"
    ELSE "ok"

\* validation.py 41-67, for required_columns = ['Contributor Name']
validate_required_columns(f) ==
    IF ~f.has_name THEN "ValidationError"
    ELSE IF f.nrows = 0 THEN "ValidationError"
    ELSE IF f.all_null THEN "ValidationError"
    ELSE "ok"

\* categorizer.py 51-57: what process_csv_file raises before stage 1, "ok" if nothing
Validate(f) ==
    IF validate_csv_file(f) # "ok" THEN validate_csv_file(f)
    ELSE IF ~f.parse_ok THEN "ParserError"     \* pd.read_csv of the whole file
    ELSE validate_required_columns(f)

(***************************************************************************)
(* Stage 1 (categorizer.py 40-158)                                         *)
(***************************************************************************)
MaxInterval == 2

\* what the service does in the pipeline runs the model tries
PipelineOutcomes == { Response(<<TextCategoryLawyers>>), Raises(MsgRateLimit),
                      Raises(MsgApiError) }
PipelineDurations == {20}

\* a null cell of a column that pandas read: float('nan'), which is truthy
\* and has no strip()
NaN == <<"nan">>

\* the rows of the input, by index: a padded employer and a null occupation
\* in row 0, no employer and an occupation of blanks in the other rows
Dataset(r) ==
    [name |-> <<"J", "o", "e">>,
     employer |-> IF r = 0 THEN <<" ", "L", "L", "C">> ELSE <<>>,
     occupation |-> IF r = 0 THEN NaN ELSE <<" ", " ">>]

\* Mutant of _clean_string: the value is not stripped
_clean_string_NoStrip(value) ==
    IF value = NaN \/ value = <<>> THEN <<>> ELSE value

\* categorizer.py 204-208; the None it returns is the empty string, both
\* are falsy at client.py 47-48
_clean_string(value) ==
    IF value = NaN \/ value = <<>> THEN <<>> ELSE Strip(value)

Rows(n) == 0..(n - 1)

\* the elements of the set S of naturals in ascending order
RECURSIVE Ascending(_)
Ascending(S) ==
    IF S = {} THEN <<>>
    ELSE LET m == CHOOSE x \in S : \A y \in S : x <= y
         IN  <<m>> \o Ascending(S \ {m})

\* Mutant of Todo: checkpointed rows are not skipped
Todo_NoSkip(n, loaded) == Ascending(Rows(n))

\* categorizer.py 93-103: the rows still to classify, in input order
Todo(n, loaded) == Ascending(Rows(n) \ DOMAIN loaded)

\* categorizer.py 116-117: for contributor, category in zip(contributors, new_categories)
ZipUpdate(cats, contribs, new) ==
    LET n == IF Len(contribs) < Len(new) THEN Len(contribs) ELSE Len(new)
    IN  [r \in DOMAIN cats |->
            IF \E k \in 1..n : contribs[k] = r
            THEN new[CHOOSE k \in 1..n : contribs[k] = r]
            ELSE cats[r]]

NoInterim == [written |-> FALSE, labels |-> <<>>]
NoInput == GoodInput(0)
NoPrev == [ended |-> "none", rows |-> 0, io_failed |-> FALSE]
NoLoad == [expected |-> Missing, read_ok |-> FALSE]

Names == {<<"J", "o", "e">>}
Fields == {<<>>, <<"L", "L", "C">>}

\* what _standardize_single_category gives back, and the branch that gave it
Returned(label, path) == [label |-> label, path |-> path]

(***************************************************************************)
(* Configuration of the standardizer (settings.py 26, 40-56, 126)          *)
(***************************************************************************)
LaborUnions == <<"L", "a", "b", "o", "r", " ", "U", "n", "i", "o", "n", "s">>
OilIndustry == <<"O", "i", "l", " ", "I", "n", "d", "u", "s", "t", "r", "y">>
Others == <<"O", "t", "h", "e", "r", "s">>

\* entries of the shipped taxonomy, in its order
TaxonomyShipped == <<LaborUnions, OilIndustry, Lawyers, Other>>
\* the taxonomy of the end-to-end example
TaxonomyExample == <<Lawyers, Other>>
\* configured taxonomies that do not hold the string "Other"
TaxonomyNoOther == <<Lawyers>>
TaxonomyOthers == <<Others, Lawyers>>

\* taxonomies with two entries that a label may resemble equally, in both orders
Sawyers == <<"S", "a", "w", "y", "e", "r", "s">>
TaxonomySawyersFirst == <<Sawyers, Lawyers, Other>>
TaxonomyLawyersFirst == <<Lawyers, Sawyers, Other>>

TiedTaxonomies == {TaxonomySawyersFirst, TaxonomyLawyersFirst}

Taxonomies == {TaxonomyShipped, TaxonomyExample, TaxonomyNoOther, TaxonomyOthers}

\* the thresholds AppConfig.validate accepts (settings.py 126)
Thresholds == 0..100
default_fuzzy_match_threshold == 80

NoStd == Returned(<<>>, "none")
\* a categorized CSV file with the given label column; an empty cell is read as NaN
GoodExisting(labels) ==
    [exists |-> TRUE, isfile |-> TRUE, csv_ext |-> TRUE, head_ok |-> TRUE,
     parse_ok |-> TRUE, has_category |-> TRUE, labels |-> labels]

NoExisting == [GoodExisting(<<>>) EXCEPT !.exists = FALSE]
NoFinal == [written |-> FALSE, rows |-> <<>>]

\* what a fresh process holds of the standardizer and of stage 2
InitStandardizerMemory ==
    /\ cat = <<>>
    /\ standardized = NoStd
    /\ again = NoStd
    /\ existing = NoExisting
    /\ final = NoFinal

\* the shipped configuration
ShippedStandardizerConfig ==
    /\ canonical_categories = TaxonomyShipped
    /\ fuzzy_match_threshold = default_fuzzy_match_threshold
    /\ matcher = "difflib"

\* the processes that may call process_csv_file at the same time
Procs == {1, 2}

\* None, for a path
NoPath == <<"<", "n", "o", "n", "e", ">">>
NoProc == [pc |-> "idle", dir |-> <<>>, base |-> <<>>, ext |-> <<>>,
           input_file |-> NoPath, output_file |-> NoPath, interim_file |-> NoPath,
           progress_file |-> NoPath, final_file |-> NoPath]
NoGenerated == [dir |-> <<>>, base |-> <<>>, ext |-> <<>>, stage |-> "none",
                raises |-> "none", made |-> NoPath, path |-> NoPath]

\* the state of a fresh process
InitMemory ==
    /\ cpc = "idle"
    /\ attempt = 0
    /\ request = NoRequest
    /\ result = NoResult
    /\ invocations = 0
    /\ throttled = 0
    /\ last_outcome = "none"
    /\ response = NoResponse
    /\ waits = <<>>
    /\ since_last = TimeCap
    /\ slept = 0
    /\ interim = NoInterim
    /\ pc = "idle"
    /\ input = NoInput
    /\ current_dataset_size = 0
    /\ processed_indices = EmptyMap
    /\ contributors = <<>>
    /\ i = 0
    /\ new_categories = <<>>
    /\ categories = <<>>
    /\ prev_run = NoPrev
    /\ failure = "none"
    /\ log = <<>>
    /\ ck_saves = <<>>
    /\ ck_load = NoLoad
    /\ ck_cleanups = <<>>
    /\ procs = [r \in Procs |-> NoProc]
    /\ accessed = {}
    /\ generated = NoGenerated

ResetClient ==
    /\ cpc' = "idle"
    /\ attempt' = 0
    /\ request' = NoRequest
    /\ result' = NoResult
    /\ invocations' = 0
    /\ throttled' = 0
    /\ last_outcome' = "none"
    /\ response' = NoResponse
    /\ waits' = <<>>
    /\ max_retries' = max_retries
    /\ since_last' = TimeCap
    /\ slept' = 0

\* categorizer.py 40-63 and 76-110: a run starts; validation, the interim
\* path, the checkpoint load, the contributors still to classify
StartRun ==
    /\ pc = "idle"
    /\ \E inp \in Inputs :
       \E read_ok \in ReadOutcomes(Validate(inp) = "ok") :
         /\ input' = inp
         /\ ResetClient
         /\ interim' = NoInterim
         /\ new_categories' = <<>>
         /\ i' = 0
         /\ IF Validate(inp) # "ok"
            THEN /\ pc' = Validate(inp)
                 /\ failure' = Validate(inp)
                 /\ log' = <<>>
                 /\ current_dataset_size' = 0
                 /\ processed_indices' = EmptyMap
                 /\ contributors' = <<>>
                 /\ categories' = <<>>
            ELSE LET loaded == _load_progress(file, inp.nrows, read_ok)
                     todo == Todo(inp.nrows, loaded)
                 IN  /\ current_dataset_size' = inp.nrows
                     /\ processed_indices' = loaded
                     /\ contributors' = todo
                     /\ log' = << [op |-> "makedirs"],
                                  [op |-> "load", kind |-> file.kind,
                                   dataset_size |-> file.dataset_size,
                                   entries |-> Cardinality(DOMAIN file.categories),
                                   loaded |-> loaded] >>
                     /\ IF \E idx \in DOMAIN loaded : idx >= inp.nrows
                        THEN \* categories[idx] = ... raises IndexError (line 110)
                             /\ pc' = "failed"
                             /\ failure' = "IndexError"
                             /\ categories' = <<>>
                        ELSE /\ categories' = [r \in Rows(inp.nrows) |->
                                                  IF r \in DOMAIN loaded THEN loaded[r] ELSE <<>>]
                             /\ pc' = IF todo = <<>> THEN "interim" ELSE "classify"
                             /\ failure' = "none"
    /\ UNCHANGED <<file, progress_save_interval, prev_run, storeVars, laterVars>>

\* categorizer.py 139-146: the next contributor is handed to the client
CallClient ==
    /\ pc = "classify"
    /\ cpc = "idle"
    /\ i < Len(contributors)
    /\ LET row == Dataset(contributors[i + 1])
       IN  StartCall(_clean_string(row.name), _clean_string(row.employer),
                     _clean_string(row.occupation))
    /\ log' = Append(log, [op |-> "call", index |-> contributors[i + 1]])
    /\ UNCHANGED <<limiterVars, fileVars, runVars, prev_run, failure, storeVars, laterVars>>

\* Mutant of SaveDue: the save comes one record late
SaveDue_OneLate(idx, interval) ==
    interval # 0 /\ idx % interval = 0

\* categorizer.py 150: (i + 1) % progress_save_interval == 0, for the loop
\* index idx; with interval 0 the test raises and nothing is saved
SaveDue(idx, interval) ==
    interval # 0 /\ (idx + 1) % interval = 0

\* categorizer.py 147-158 and 112-117: the client has returned; the category
\* is appended, every progress_save_interval-th one is checkpointed, and after
\* the last contributor the label column is filled in
RecordCategory ==
    /\ pc = "classify"
    /\ cpc \in {"returned", "raised"}
    /\ LET index == contributors[i + 1]
           returned == [op |-> "return", index |-> index, label |-> result]
           \* line 155: logger.error("Error processing contributor ...")
           error == [op |-> "error", index |-> index]
           saves == /\ cpc = "returned"
                    /\ SaveDue(i, progress_save_interval)
       IN  \E read_ok \in ReadOutcomes(saves), write \in WriteOutcomes(saves) :
           LET new == IF cpc = "raised" THEN Append(new_categories, Other)
                      ELSE IF progress_save_interval = 0
                      THEN \* ZeroDivisionError after the append, caught at line 154
                           Append(Append(new_categories, result), Other)
                      ELSE Append(new_categories, result)
           IN  /\ new_categories' = new
               /\ file' = IF saves
                          THEN _save_progress(file, index, result, current_dataset_size,
                                              "now", read_ok, write)
                          ELSE file
               /\ log' = IF cpc = "raised" THEN Append(log, error)
                         ELSE IF saves
                         THEN log \o <<returned, [op |-> "save", index |-> index,
                                                   label |-> result,
                                                   dataset_size |-> current_dataset_size,
                                                   ok |-> read_ok /\ write = "ok"]>>
                         ELSE IF progress_save_interval = 0
                         THEN log \o <<returned, error>>
                         ELSE Append(log, returned)
               /\ i' = i + 1
               /\ IF i + 1 = Len(contributors)
                  THEN /\ categories' = ZipUpdate(categories, contributors, new)
                       /\ pc' = "interim"
                  ELSE /\ categories' = categories
                       /\ pc' = "classify"
    \* the call is over and its local variables are gone
    /\ cpc' = "idle"
    /\ attempt' = 0
    /\ request' = NoRequest
    /\ result' = NoResult
    /\ invocations' = 0
    /\ throttled' = 0
    /\ last_outcome' = "none"
    /\ response' = NoResponse
    /\ waits' = <<>>
    /\ UNCHANGED <<max_retries, limiterVars, interim, input, progress_save_interval,
                   current_dataset_size, processed_indices, contributors,
                   prev_run, failure, storeVars, laterVars>>

\* Mutant of WriteInterim: the interim file is also written while records are
\* still being classified, with the labels known so far
WriteInterim_Incremental ==
    /\ pc \in {"classify", "interim"}
    /\ cpc = "idle"
    /\ interim' = [written |-> TRUE,
                   labels |-> [k \in 1..current_dataset_size |->
                                 IF k - 1 \in DOMAIN processed_indices
                                 THEN processed_indices[k - 1] ELSE <<>>]]
    /\ log' = Append(log, [op |-> "interim"])
    /\ pc' = IF pc = "interim" THEN "cleanup" ELSE pc
    /\ failure' = failure
    /\ UNCHANGED <<clientVars, limiterVars, file, input, progress_save_interval,
                   current_dataset_size, processed_indices, contributors, i,
                   new_categories, categories, prev_run, storeVars, laterVars>>

\* categorizer.py 119-124: the label column is written to the interim file
WriteInterim ==
    /\ pc = "interim"
    /\ \E to_csv_ok \in BOOLEAN :
         IF to_csv_ok
         THEN /\ interim' = [written |-> TRUE,
                             labels |-> [k \in 1..current_dataset_size |-> categories[k - 1]]]
              /\ log' = Append(log, [op |-> "interim"])
              /\ pc' = "cleanup"
              /\ failure' = failure
         ELSE /\ pc' = "failed"
              /\ failure' = "to_csv"
              /\ UNCHANGED <<interim, log>>
    /\ UNCHANGED <<clientVars, limiterVars, file, input, progress_save_interval,
                   current_dataset_size, processed_indices, contributors, i,
                   new_categories, categories, prev_run, storeVars, laterVars>>

\* categorizer.py 126-127
CleanupProgress ==
    /\ pc = "cleanup"
    /\ \E remove_ok \in BOOLEAN :
         /\ file' = _cleanup_progress(file, remove_ok)
         /\ log' = IF file.kind = "absent" THEN log
                   ELSE Append(log, [op |-> IF remove_ok THEN "delete" ELSE "delete_failed"])
    /\ pc' = "stage1_done"
    /\ UNCHANGED <<clientVars, limiterVars, interim, input, progress_save_interval,
                   current_dataset_size, processed_indices, contributors, i,
                   new_categories, categories, prev_run, failure, storeVars, laterVars>>

\* the process ends: what it held in memory is gone, the files stay
EndProcess(how) ==
    /\ pc' = "idle"
    /\ prev_run' = IF how = "crashed"
                   THEN [ended |-> how,
                         rows |-> current_dataset_size,
                         io_failed |-> \E k \in 1..Len(log) :
                                          log[k].op = "save" /\ ~log[k].ok]
                   ELSE NoPrev
    /\ ResetClient
    /\ input' = NoInput
    /\ current_dataset_size' = 0
    /\ processed_indices' = EmptyMap
    /\ contributors' = <<>>
    /\ i' = 0
    /\ new_categories' = <<>>
    /\ categories' = <<>>
    /\ log' = <<>>
    /\ failure' = "none"
    /\ UNCHANGED <<fileVars, progress_save_interval, storeVars, laterVars>>

\* the process is terminated during stage 1
Crash ==
    /\ pc \in {"classify", "interim", "cleanup"}
    /\ EndProcess("crashed")

\* the process exits after the run has ended, with or without an exception
Exit ==
    /\ pc \in {"stage1_done", "failed", "ValidationError", "ParserError"}
    /\ EndProcess("exited")

\* the checkpoint files a run may find when it starts
InitFiles ==
    { AbsentFile, UnreadableFile, ListFile,
      LegacyFile(EmptyMap),
      LegacyFile([k \in {0, 1} |-> Business]),
      LegacyFile([k \in {3} |-> Business]),
      EnvelopeFile([k \in {1} |-> Business], 3, "earlier"),
      EnvelopeFile([k \in {2} |-> Business], 2, "earlier") }

InitPipeline ==
    /\ InitMemory
    /\ max_retries = 1
    /\ file \in InitFiles
    /\ ck_start = AbsentFile
    /\ progress_save_interval \in 1..MaxInterval
    /\ ShippedStandardizerConfig
    /\ InitStandardizerMemory

NextPipeline ==
    \/ StartRun
    \/ CallClient
    \/ WaitWith({0}, {0}, {FALSE})
    \/ InvokeWith(PipelineOutcomes, PipelineDurations)
    \/ RecordCategory
    \/ WriteInterim
    \/ CleanupProgress
    \/ Crash
    \/ Exit

SpecPipeline == InitPipeline /\ [][NextPipeline]_vars

\* one run of stage 1 under every save interval that AppConfig.validate
\* accepts (settings.py 118-127 does not look at progress_save_interval)
InitLoop ==
    /\ InitMemory
    /\ max_retries = 1
    /\ file \in {AbsentFile, EnvelopeFile([k \in {1} |-> Business], 3, "earlier")}
    /\ ck_start = AbsentFile
    /\ progress_save_interval \in 0..MaxInterval
    /\ ShippedStandardizerConfig
    /\ InitStandardizerMemory

NextLoop ==
    \/ StartRun
    \/ CallClient
    \/ WaitWith({0}, {0}, {FALSE})
    \/ InvokeWith(PipelineOutcomes, PipelineDurations)
    \/ RecordCategory
    \/ WriteInterim

SpecLoop == InitLoop /\ [][NextLoop]_vars

(***************************************************************************)
(* The checkpoint store on its own: two saves and loads, in any order      *)
(***************************************************************************)
StoreLabels == {Lawyers, Other}

InitCheckpoint ==
    /\ InitMemory
    /\ max_retries = default_max_retries
    /\ file \in InitFiles
    /\ ck_start = file
    /\ progress_save_interval = 1
    /\ ShippedStandardizerConfig
    /\ InitStandardizerMemory

\* a direct call _save_progress(index, category, dataset_size)
SaveProgress ==
    /\ Len(ck_saves) < 2
    /\ \E index \in 0..MaxRows, category \in StoreLabels, dataset_size \in 0..MaxRows,
          read_ok \in ReadOutcomes(TRUE), write \in WriteOutcomes(TRUE) :
         /\ file' = _save_progress(file, index, category, dataset_size, "now", read_ok, write)
         /\ ck_saves' = Append(ck_saves, [index |-> index, category |-> category,
                                          dataset_size |-> dataset_size,
                                          ok |-> read_ok /\ write = "ok"])
    /\ ck_load' = NoLoad
    /\ processed_indices' = EmptyMap
    /\ UNCHANGED <<clientVars, limiterVars, interim, pc, input, progress_save_interval,
                   current_dataset_size, contributors, i, new_categories, categories,
                   bookVars, ck_start, ck_cleanups, laterVars>>

\* a direct call _load_progress(expected_dataset_size)
LoadProgress ==
    /\ \E expected \in 0..MaxRows, read_ok \in BOOLEAN :
         /\ processed_indices' = _load_progress(file, expected, read_ok)
         /\ ck_load' = [expected |-> expected, read_ok |-> read_ok]
    /\ UNCHANGED <<clientVars, limiterVars, fileVars, pc, input, progress_save_interval,
                   current_dataset_size, contributors, i, new_categories, categories,
                   bookVars, ck_start, ck_saves, ck_cleanups, laterVars>>

NextCheckpoint == SaveProgress \/ LoadProgress

SpecCheckpoint == InitCheckpoint /\ [][NextCheckpoint]_vars

(***************************************************************************)
(* A process that is terminated inside _save_progress                      *)
(***************************************************************************)
\* where the termination falls: before open(..., 'wb') at line 247, between
\* that open and the end of pickle.dump at 248, or after the dump
KillPoints == {"before_open", "after_open", "after_dump"}

\* the file a process leaves that is terminated inside
\* _save_progress(index, category, dataset_size): untouched before the open,
\* truncated or cut short, so not a pickle, after it, complete after the dump
FileAtKill(f, index, category, dataset_size, at) ==
    IF at = "before_open" THEN f
    ELSE IF at = "after_open" THEN UnreadableFile
    ELSE _save_progress(f, index, category, dataset_size, "now", TRUE, "ok")

\* the process is terminated during a call of _save_progress
KilledInSave ==
    /\ prev_run.ended = "none"
    /\ Len(ck_saves) < 2
    /\ \E index \in 0..MaxRows, category \in StoreLabels, dataset_size \in 0..MaxRows,
          at \in KillPoints :
         /\ file' = FileAtKill(file, index, category, dataset_size, at)
         /\ ck_saves' = Append(ck_saves, [index |-> index, category |-> category,
                                          dataset_size |-> dataset_size,
                                          ok |-> at = "after_dump"])
         /\ prev_run' = [ended |-> "crashed", rows |-> dataset_size, io_failed |-> FALSE]
    /\ ck_load' = NoLoad
    /\ processed_indices' = EmptyMap
    /\ UNCHANGED <<clientVars, limiterVars, interim, pc, input, progress_save_interval,
                   current_dataset_size, contributors, i, new_categories, categories,
                   failure, log, ck_start, ck_cleanups, laterVars>>

\* at most one save that returns comes before the one that is interrupted
NextKill ==
    \/ (ck_saves = <<>> /\ SaveProgress)
    \/ KilledInSave
    \/ LoadProgress

SpecKill == InitCheckpoint /\ [][NextKill]_vars

(***************************************************************************)
(* _cleanup_progress called directly, any number of times, on any file     *)
(***************************************************************************)
\* a direct call _cleanup_progress(); os.remove is reached, and may raise,
\* only when os.path.exists says that the file is there (line 291); whatever
\* it raises is caught at 293, so the call returns
CleanupDirect ==
    /\ Len(ck_cleanups) < 3
    /\ \E remove_ok \in (IF file.kind = "absent" THEN {TRUE} ELSE BOOLEAN) :
         /\ file' = _cleanup_progress(file, remove_ok)
         /\ ck_cleanups' = Append(ck_cleanups,
                                  [before |-> file, remove_ok |-> remove_ok,
                                   after |-> _cleanup_progress(file, remove_ok),
                                   raised |-> FALSE, saves |-> Len(ck_saves)])
    /\ UNCHANGED <<clientVars, limiterVars, interim, runVars, bookVars,
                   ck_start, ck_saves, ck_load, laterVars>>

\* one direct call of _save_progress puts a file back between the cleanups
SaveBetween ==
    /\ ck_saves = <<>>
    /\ SaveProgress

NextCleanup == CleanupDirect \/ SaveBetween

SpecCleanup == InitCheckpoint /\ [][NextCleanup]_vars

(***************************************************************************)
(* The paths of the interim, final and checkpoint files                    *)
(* (categorizer.py 40-74, 80-83, 214-229; os.path of a POSIX build)        *)
(***************************************************************************)
\* str.rfind(c) + 1: the last position of c in s, 0 when there is none
RFind(s, c) ==
    IF \A k \in 1..Len(s) : s[k] # c THEN 0
    ELSE CHOOSE k \in 1..Len(s) : s[k] = c /\ \A j \in (k + 1)..Len(s) : s[j] # c

\* os.path.basename: what follows the last separator
basename(p) == SubSeq(p, RFind(p, "/") + 1, Len(p))

\* Mutant of splitext: the name is cut at its first dot
splitext_FirstDot(p) ==
    LET dots == {k \in 1..Len(p) : p[k] = "."}
    IN  IF dots = {} THEN [root |-> p, ext |-> <<>>]
        ELSE LET d == CHOOSE k \in dots : \A j \in dots : k <= j
             IN  [root |-> SubSeq(p, 1, d - 1), ext |-> SubSeq(p, d, Len(p))]

\* os.path.splitext: the extension starts at the last dot, if that dot lies
\* in the last component and some character other than a dot precedes it there
splitext(p) ==
    LET sepIndex == RFind(p, "/")
        dotIndex == RFind(p, ".")
    IN  IF /\ dotIndex > sepIndex
           /\ \E k \in (sepIndex + 1)..(dotIndex - 1) : p[k] # "."
        THEN [root |-> SubSeq(p, 1, dotIndex - 1), ext |-> SubSeq(p, dotIndex, Len(p))]
        ELSE [root |-> p, ext |-> <<>>]

\* os.path.join of two components
join(a, b) ==
    IF b # <<>> /\ b[1] = "/" THEN b
    ELSE IF a = <<>> \/ a[Len(a)] = "/" THEN a \o b
    ELSE a \o <<"/">> \o b

DirData == <<"d", "a", "t", "a">>
DirInterim == <<"i", "n", "t", "e", "r", "i", "m">>
DirProcessed == <<"p", "r", "o", "c", "e", "s", "s", "e", "d">>
SuffixCategorized == <<"_", "c", "a", "t", "e", "g", "o", "r", "i", "z", "e", "d">>
SuffixStandardized == <<"_", "s", "t", "a", "n", "d", "a", "r", "d", "i", "z", "e", "d">>
SuffixProgress == <<"_", "p", "r", "o", "g", "r", "e", "s", "s">>
ExtCsv == <<".", "c", "s", "v">>
ExtPkl == <<".", "p", "k", "l">>

\* categorizer.py 214-229: the path, the directory made for it, or the
\* ValueError of line 224
_auto_generate_output_path(input_path, stage) ==
    LET base_name == splitext(basename(input_path)).root
    IN  IF stage = "categorized"
        THEN [raises |-> "none", made |-> join(DirData, DirInterim),
              path |-> join(join(DirData, DirInterim),
                            base_name \o SuffixCategorized \o ExtCsv)]
        ELSE IF stage = "standardized"
        THEN [raises |-> "none", made |-> join(DirData, DirProcessed),
              path |-> join(join(DirData, DirProcessed),
                            base_name \o SuffixStandardized \o ExtCsv)]
        ELSE [raises |-> "ValueError", made |-> NoPath, path |-> NoPath]

\* categorizer.py 80-82: self.progress_file for an interim file
progress_file_for(interim_file) ==
    join(join(DirData, DirInterim),
         splitext(basename(interim_file)).root \o SuffixProgress \o ExtPkl)

\* validation.py 31: file_path.lower().endswith('.csv')
EndsWithCsv(file_path) ==
    /\ Len(file_path) >= Len(ExtCsv)
    /\ SubSeq(Lower(file_path), Len(file_path) - Len(ExtCsv) + 1, Len(file_path)) = ExtCsv

\* input paths by their parts: directory, base name, extension
PathParts ==
    { <<dir, base, ext>> : dir \in {<<>>, <<"a", "/">>, <<"b", "/">>, <<"/", "r", "/", "a", "/">>, <<"a", ".", "d", "/">>},
                           base \in {<<"x">>, <<"y">>, <<"x", ".", "v", "2">>},
                           ext \in {ExtCsv, <<".", "t", "x", "t">>} }
    \cup { <<<<"a", "/">>, <<"x">>, <<>> >>, <<<<"a", ".", "d", "/">>, <<"y">>, <<>> >>, <<<<"a", "/">>, <<".", "x">>, ExtCsv>> }

\* the inputs the concurrent calls are made with, all of them existing files
RunParts ==
    { <<<<"a", "/">>, <<"x">>, ExtCsv>>, <<<<"b", "/">>, <<"x">>, ExtCsv>>, <<<<"a", "/">>, <<"y">>, ExtCsv>>,
      <<<<>>, <<"x", ".", "v", "2">>, ExtCsv>>, <<<<"a", "/">>, <<"x">>, <<".", "t", "x", "t">>>> }

\* the output_file argument: None or a path of the caller
OutputArgs == {NoPath, <<"o", "u", "t", ".", "c", "s", "v">>}

Stages == {"categorized", "standardized", "invalid_stage", "Categorized", ""}

Touch(r, op, what, path) == [proc |-> r, op |-> op, what |-> what, path |-> path]

\* a direct call _auto_generate_output_path(input_path, stage)
AutoGenerateOutputPath ==
    /\ generated = NoGenerated
    /\ \A r \in Procs : procs[r].pc = "idle"
    /\ \E parts \in PathParts, stage \in Stages :
         LET out == _auto_generate_output_path(parts[1] \o parts[2] \o parts[3], stage)
         IN  generated' = [dir |-> parts[1], base |-> parts[2], ext |-> parts[3],
                           stage |-> stage, raises |-> out.raises,
                           made |-> out.made, path |-> out.path]
    /\ UNCHANGED <<clientVars, limiterVars, fileVars, runVars, bookVars, storeVars,
                   configVars, stdVars, stage2Vars, procs, accessed>>

\* categorizer.py 51-62 and 80-82: process r calls process_csv_file; the
\* input is validated and read, the interim path and the checkpoint path are
\* derived
BeginProcess(r) ==
    /\ generated = NoGenerated
    /\ procs[r].pc = "idle"
    /\ \E parts \in RunParts, output_file \in OutputArgs :
         LET input_file == parts[1] \o parts[2] \o parts[3]
             out == _auto_generate_output_path(input_file, "categorized")
             started == [NoProc EXCEPT !.dir = parts[1], !.base = parts[2],
                                       !.ext = parts[3], !.input_file = input_file,
                                       !.output_file = output_file]
         IN  IF ~EndsWithCsv(input_file)
             THEN /\ procs' = [procs EXCEPT ![r] = [started EXCEPT !.pc = "ValidationError"]]
                  /\ accessed' = accessed
             ELSE /\ procs' = [procs EXCEPT ![r] =
                                  [started EXCEPT !.pc = "load",
                                                  !.interim_file = out.path,
                                                  !.progress_file = progress_file_for(out.path)]]
                  /\ accessed' = accessed \cup {Touch(r, "read", "input", input_file),
                                                 Touch(r, "makedirs", "dir", out.made)}
    /\ UNCHANGED <<clientVars, limiterVars, fileVars, runVars, bookVars, storeVars,
                   configVars, stdVars, stage2Vars, generated>>

\* one step of process r that touches the file at path and moves on
TouchStep(r, from, to, ops, what, path) ==
    /\ procs[r].pc = from
    /\ procs' = [procs EXCEPT ![r].pc = to]
    /\ accessed' = accessed \cup {Touch(r, op, what, path) : op \in ops}
    /\ UNCHANGED <<clientVars, limiterVars, fileVars, runVars, bookVars, storeVars,
                   configVars, stdVars, stage2Vars, generated>>

\* categorizer.py 86 with 273-286: _load_progress opens the checkpoint file
LoadCheckpoint(r) ==
    TouchStep(r, "load", "classify", {"read"}, "checkpoint", procs[r].progress_file)

\* categorizer.py 112-113 with 150-151 and 231-250: the records are
\* classified; the periodic saves, if any is due, read and write the file
ClassifyAll(r) ==
    \E saves \in BOOLEAN :
        TouchStep(r, "classify", "interim", IF saves THEN {"read", "write"} ELSE {},
                  "checkpoint", procs[r].progress_file)

\* categorizer.py 124
WriteInterimFile(r) ==
    TouchStep(r, "interim", "cleanup", {"write"}, "interim", procs[r].interim_file)

\* categorizer.py 127 with 288-294
RemoveCheckpoint(r) ==
    TouchStep(r, "cleanup", "stage2", {"delete"}, "checkpoint", procs[r].progress_file)

\* categorizer.py 65-74: the final path is the caller's or is derived, the
\* final artifact is written and the two paths are returned
WriteFinalFile(r) ==
    /\ procs[r].pc = "stage2"
    /\ LET out == _auto_generate_output_path(procs[r].input_file, "standardized")
           output_file == IF procs[r].output_file = NoPath THEN out.path
                          ELSE procs[r].output_file
       IN  /\ procs' = [procs EXCEPT ![r].pc = "returned", ![r].final_file = output_file]
           /\ accessed' = accessed \cup
                  {Touch(r, "write", "final", output_file)} \cup
                  (IF procs[r].output_file = NoPath
                   THEN {Touch(r, "makedirs", "dir", out.made)} ELSE {})
    /\ UNCHANGED <<clientVars, limiterVars, fileVars, runVars, bookVars, storeVars,
                   configVars, stdVars, stage2Vars, generated>>

NextPaths ==
    \/ AutoGenerateOutputPath
    \/ \E r \in Procs : BeginProcess(r)
    \/ \E r \in Procs : LoadCheckpoint(r)
    \/ \E r \in Procs : ClassifyAll(r)
    \/ \E r \in Procs : WriteInterimFile(r)
    \/ \E r \in Procs : RemoveCheckpoint(r)
    \/ \E r \in Procs : WriteFinalFile(r)

InitPaths ==
    /\ InitMemory
    /\ max_retries = default_max_retries
    /\ file = AbsentFile
    /\ ck_start = file
    /\ progress_save_interval = 1
    /\ ShippedStandardizerConfig
    /\ InitStandardizerMemory

SpecPaths == InitPaths /\ [][NextPaths]_vars

(***************************************************************************)
(* The client on its own: any sequence of calls                            *)
(***************************************************************************)
InitClient ==
    /\ InitMemory
    /\ max_retries \in 0..default_max_retries
    /\ file = AbsentFile
    /\ ck_start = file
    /\ progress_save_interval = 1
    /\ ShippedStandardizerConfig
    /\ InitStandardizerMemory

\* a caller invokes categorize_contributor, some time after the previous call
CategorizeContributor ==
    /\ cpc \in {"idle", "returned"}
    /\ \E name \in Names, employer \in Fields, occupation \in Fields, d \in Durations :
         /\ StartCall(name, employer, occupation)
         /\ since_last' = Elapse(since_last, d)
    /\ UNCHANGED <<slept, fileVars, runVars, bookVars, storeVars, laterVars>>

NextClient == CategorizeContributor \/ WaitIfNeeded \/ InvokeService

SpecClient == InitClient /\ [][NextClient]_vars

\* The same with the call running on: time.sleep returns and the service
\* answers or raises, so a call that can take its next step takes it.
\* Nothing obliges a caller to call again.
SpecClientLive ==
    SpecClient /\ WF_vars(WaitIfNeeded) /\ WF_vars(InvokeService)


(***************************************************************************)
(* Taxonomy standardizer (categorizer.py 180-202)                          *)
(*                                                                         *)
(* process.extractOne(category, choices, scorer=fuzz.ratio) of fuzzywuzzy  *)
(* runs its default processor over the query and over every choice         *)
(* (characters that are no letter, digit or underscore become blanks, the  *)
(* string is lower-cased and trimmed), scores each pair with fuzz.ratio    *)
(* and returns the first choice of maximal score.  fuzz.ratio is 100 for   *)
(* equal strings, 0 when one is empty, and otherwise 100 * 2M / T rounded, *)
(* T the sum of the lengths and M the matched characters as the installed  *)
(* SequenceMatcher counts them: difflib's matching blocks, or the longest  *)
(* common subsequence when python-Levenshtein is installed.                *)
(***************************************************************************)
UpperLetters == <<"A", "B", "C", "D", "E", "F", "G", "H", "I", "J", "K", "L", "M",
                  "N", "O", "P", "Q", "R", "S", "T", "U", "V", "W", "X", "Y", "Z">>
LowerLetters == <<"a", "b", "c", "d", "e", "f", "g", "h", "i", "j", "k", "l", "m",
                  "n", "o", "p", "q", "r", "s", "t", "u", "v", "w", "x", "y", "z">>
Digits == {"0", "1", "2", "3", "4", "5", "6", "7", "8", "9"}

\* str.lower() on one character
ToLower(c) ==
    IF \E k \in 1..26 : UpperLetters[k] = c
    THEN LowerLetters[CHOOSE k \in 1..26 : UpperLetters[k] = c]
    ELSE c

\* the characters the regular expression \W does not match
IsWordChar(c) ==
    \/ \E k \in 1..26 : UpperLetters[k] = c \/ LowerLetters[k] = c
    \/ c \in Digits
    \/ c = "_"

\* Mutant of full_process: the letters keep their case
full_process_KeepCase(s) ==
    Strip([k \in 1..Len(s) |-> IF IsWordChar(s[k]) THEN s[k] ELSE " "])

\* fuzzywuzzy utils.full_process
full_process(s) ==
    Strip([k \in 1..Len(s) |-> IF IsWordChar(s[k]) THEN ToLower(s[k]) ELSE " "])

\* the length of the longest common prefix of a[p..] and b[j..]
RECURSIVE CommonRun(_, _, _, _)
CommonRun(a, p, b, j) ==
    IF p > Len(a) \/ j > Len(b) \/ a[p] # b[j] THEN 0
    ELSE 1 + CommonRun(a, p + 1, b, j + 1)

\* difflib SequenceMatcher.find_longest_match(alo, ahi, blo, bhi) as
\* <<p, j, k>>: the longest block, the earliest in a, then the earliest in b
Min(x, y) == IF x < y THEN x ELSE y

LongestEarliest(found, alo, blo) ==
    IF found = {} THEN <<alo, blo, 0>>
    ELSE CHOOSE m \in found :
            \A o \in found :
                \/ m[3] > o[3]
                \/ m[3] = o[3] /\ m[1] < o[1]
                \/ m[3] = o[3] /\ m[1] = o[1] /\ m[2] <= o[2]

find_longest_match(a, alo, ahi, b, blo, bhi) ==
    LongestEarliest({m \in {<<p, j, Min(CommonRun(a, p, b, j), Min(ahi - p + 1, bhi - j + 1))>> :
                                p \in alo..ahi, j \in blo..bhi} : m[3] > 0},
                    alo, blo)

\* difflib SequenceMatcher.get_matching_blocks: the matched characters of
\* a[alo..ahi] and b[blo..bhi]
RECURSIVE MatchingBlocks(_, _, _, _, _, _)
\* the block m, and the blocks to its left and to its right
AroundBlock(a, alo, ahi, b, blo, bhi, m) ==
    IF m[3] = 0 THEN 0
    ELSE MatchingBlocks(a, alo, m[1] - 1, b, blo, m[2] - 1)
         + m[3]
         + MatchingBlocks(a, m[1] + m[3], ahi, b, m[2] + m[3], bhi)

MatchingBlocks(a, alo, ahi, b, blo, bhi) ==
    IF alo > ahi \/ blo > bhi THEN 0
    ELSE AroundBlock(a, alo, ahi, b, blo, bhi, find_longest_match(a, alo, ahi, b, blo, bhi))

\* the next row of the longest-common-subsequence table: row is the row for
\* a[1..p-1], the result the row for a[1..p]; both are indexed 1..Len(b)
RECURSIVE LcsRow(_, _, _, _, _)
LcsRow(c, b, row, j, acc) ==
    IF j > Len(b) THEN acc
    ELSE LET up == row[j]
             diag == IF j = 1 THEN 0 ELSE row[j - 1]
             left == IF j = 1 THEN 0 ELSE acc[j - 1]
             best == IF c = b[j] THEN diag + 1
                     ELSE IF up >= left THEN up ELSE left
         IN  LcsRow(c, b, row, j + 1, Append(acc, best))

RECURSIVE LcsRows(_, _, _, _)
LcsRowsFrom(a, b, p, next) ==
    IF Len(next) = Len(b) THEN LcsRows(a, b, p, next) ELSE <<>>

LcsRows(a, b, p, row) ==
    IF p > Len(a) THEN row
    ELSE LcsRowsFrom(a, b, p + 1, LcsRow(a[p], b, row, 1, <<>>))

\* python-Levenshtein ratio counts (T - distance) / T with a substitution
\* costing 2: the matched characters are twice the longest common subsequence
LongestCommonSubsequence(a, b) ==
    IF Len(a) = 0 \/ Len(b) = 0 THEN 0
    ELSE LcsRows(a, b, 1, [j \in 1..Len(b) |-> 0])[Len(b)]

Matchers == {"difflib", "Levenshtein"}

\* int(round(100 * 2.0 * M / T)), round() going to the even neighbour on a tie
RoundedRatio(M, T) ==
    LET q == (200 * M) \div T
        r == (200 * M) % T
    IN  IF 2 * r > T THEN q + 1
        ELSE IF 2 * r < T THEN q
        ELSE IF q % 2 = 0 THEN q ELSE q + 1

\* fuzz.ratio(s1, s2) with the SequenceMatcher of the build
fuzz_ratio(s1, s2, matcher_) ==
    IF s1 = s2 THEN 100
    ELSE IF Len(s1) = 0 \/ Len(s2) = 0 THEN 0
    ELSE LET M == IF matcher_ = "difflib"
                  THEN MatchingBlocks(s1, 1, Len(s1), s2, 1, Len(s2))
                  ELSE LongestCommonSubsequence(s1, s2)
         IN  RoundedRatio(M, Len(s1) + Len(s2))

\* the score extractOne gives the choice for the query
Score(query, choice, matcher_) ==
    fuzz_ratio(full_process(query), full_process(choice), matcher_)

\* Mutant of FirstBest: the last of the choices that share the best score
FirstBest_Last(choices, scores) ==
    LET best == CHOOSE k \in 1..Len(choices) :
                    /\ \A m \in 1..Len(choices) : scores[k] >= scores[m]
                    /\ \A m \in (k + 1)..Len(choices) : scores[m] < scores[k]
    IN  <<choices[best], scores[best]>>

\* process.extractOne(query, choices, scorer=fuzz.ratio) as <<choice, score>>:
\* max() keeps the first of the choices that share the best score
FirstBest(choices, scores) ==
    LET best == CHOOSE k \in 1..Len(choices) :
                    /\ \A m \in 1..Len(choices) : scores[k] >= scores[m]
                    /\ \A m \in 1..(k - 1) : scores[m] < scores[k]
    IN  <<choices[best], scores[best]>>

extractOne(query, choices, matcher_) ==
    FirstBest(choices, [k \in 1..Len(choices) |-> Score(query, choices[k], matcher_)])

AttributeError == Returned(<<"AttributeError">>, "raised")

\* Mutant of _standardize_single_category: no exact-match short cut
_standardize_single_category_NoExact(category, canonical, threshold, matcher_) ==
    IF category = <<>> THEN Returned(Other, "blank")
    ELSE IF category = NaN THEN AttributeError
    ELSE IF Strip(category) = <<>> THEN Returned(Other, "blank")
    ELSE LET best_match == extractOne(Strip(category), canonical, matcher_)
         IN  IF best_match[2] >= threshold
             THEN Returned(best_match[1], "fuzzy")
             ELSE Returned(Other, "fallback")

\* Mutant of _standardize_single_category: the threshold itself does not pass
_standardize_single_category_Strict(category, canonical, threshold, matcher_) ==
    IF category = <<>> THEN Returned(Other, "blank")
    ELSE IF category = NaN THEN AttributeError
    ELSE IF Strip(category) = <<>> THEN Returned(Other, "blank")
    ELSE LET stripped == Strip(category)
         IN  IF \E k \in 1..Len(canonical) : canonical[k] = stripped
             THEN Returned(stripped, "exact")
             ELSE LET best_match == extractOne(stripped, canonical, matcher_)
                  IN  IF best_match[2] > threshold
                      THEN Returned(best_match[1], "fuzzy")
                      ELSE Returned(Other, "fallback")

\* categorizer.py 180-202: the value returned, with the path taken: "blank"
\* (182-183), "exact" (188-189), "fuzzy" (198-199), "fallback" (200-202), or
\* "raised" for the AttributeError of category.strip() at 182
\* categorizer.py 198-202
AcceptOrOther(best_match, threshold) ==
    IF best_match[2] >= threshold
    THEN Returned(best_match[1], "fuzzy")
    ELSE Returned(Other, "fallback")

\* categorizer.py 185-202, for a label that is stripped and not empty
StandardizeStripped(stripped, canonical, threshold, matcher_) ==
    IF \E k \in 1..Len(canonical) : canonical[k] = stripped
    THEN Returned(stripped, "exact")
    ELSE AcceptOrOther(extractOne(stripped, canonical, matcher_), threshold)

_standardize_single_category(category, canonical, threshold, matcher_) ==
    IF category = <<>> THEN Returned(Other, "blank")
    ELSE IF category = NaN THEN AttributeError
    ELSE IF Strip(category) = <<>> THEN Returned(Other, "blank")
    ELSE StandardizeStripped(Strip(category), canonical, threshold, matcher_)

\* Mutant of StandardizeColumn: every row gets the label of the first row
StandardizeColumn_FirstForAll(labels, canonical, threshold, matcher_) ==
    [k \in 1..Len(labels) |->
        _standardize_single_category(labels[1], canonical, threshold, matcher_)]

\* categorizer.py 165-167: the list comprehension over the label column
StandardizeColumn(labels, canonical, threshold, matcher_) ==
    [k \in 1..Len(labels) |->
        _standardize_single_category(labels[k], canonical, threshold, matcher_)]

(***************************************************************************)
(* The standardizer on its own: one call, and one on what it returned      *)
(***************************************************************************)
\* the labels the model tries
Labels ==
    { <<>>, <<" ", " ">>, Lawyers, <<" ">> \o Lawyers \o <<" ">>,
      <<"L", "A", "W", "Y", "E", "R", "S">>, <<"L", "a", "w", "y", "e", "r">>,
      <<"L", "a", "y", "e", "r", "s">>, Engineer, Business, Other,
      <<"O", "t", "h", "r">>, <<"!", "?">>,
      <<"O", "i", "l", "-", "I", "n", "d", "u", "s", "t", "r", "y">>,
      <<"L", "a", "b", "o", "u", "r", " ", "U", "n", "i", "o", "n">>,
      <<"S", "o", "i", "l", " ", "I", "n", "d", "u", "s", "t", "r", "y">>,
      <<"a", "w", "y", "e", "r", "s">>,
      <<"L", "A", "B", "O", "R", " ", "U", "N", "I", "O", "N", "S">> }

InitStandardizer ==
    /\ InitMemory
    /\ max_retries = default_max_retries
    /\ file = AbsentFile
    /\ ck_start = file
    /\ progress_save_interval = 1
    /\ \/ /\ canonical_categories \in Taxonomies
          /\ fuzzy_match_threshold \in Thresholds
       \/ /\ canonical_categories \in TiedTaxonomies
          /\ fuzzy_match_threshold \in {0, default_fuzzy_match_threshold, 92, 93, 100}
    /\ matcher \in Matchers
    /\ existing = NoExisting
    /\ final = NoFinal
    /\ cat \in Labels \cup {NaN}
    /\ standardized = NoStd
    /\ again = NoStd

\* a direct call _standardize_single_category(cat)
StandardizeSingleCategory ==
    /\ standardized = NoStd
    /\ standardized' = _standardize_single_category(cat, canonical_categories,
                                                    fuzzy_match_threshold, matcher)
    /\ UNCHANGED <<clientVars, limiterVars, fileVars, runVars, bookVars, storeVars,
                   configVars, cat, again, stage2Vars, pathVars>>

\* a second call, on the value the first returned
StandardizeAgain ==
    /\ standardized # NoStd
    /\ standardized.path # "raised"
    /\ again = NoStd
    /\ again' = _standardize_single_category(standardized.label, canonical_categories,
                                             fuzzy_match_threshold, matcher)
    /\ UNCHANGED <<clientVars, limiterVars, fileVars, runVars, bookVars, storeVars,
                   configVars, cat, standardized, stage2Vars, pathVars>>

NextStandardizer == StandardizeSingleCategory \/ StandardizeAgain

SpecStandardizer == InitStandardizer /\ [][NextStandardizer]_vars

(***************************************************************************)
(* Stage 2 (categorizer.py 64-74, 160-178) and standardize_existing_csv    *)
(* (categorizer.py 303-356)                                                *)
(*                                                                         *)
(* The final artifact is a sequence of rows; a row is the index of the     *)
(* row of the dataframe it carries (all its other columns) and its label.  *)
(***************************************************************************)
FinalRows(labels) == [k \in 1..Len(labels) |-> [row |-> k - 1, label |-> labels[k].label]]

RaisedIn(results) == \E k \in 1..Len(results) : results[k].path = "raised"

\* categorizer.py 164-172 and 340-349: the label column is standardized,
\* put into the dataframe and the dataframe written to the output file
StandardizeAndSave(raw_categories, to_csv_ok) ==
    LET standardized_categories ==
            StandardizeColumn(raw_categories, canonical_categories,
                              fuzzy_match_threshold, matcher)
    IN  IF RaisedIn(standardized_categories)
        THEN /\ pc' = "failed"
             /\ failure' = "AttributeError"
             /\ UNCHANGED <<final, log>>
        ELSE IF to_csv_ok
        THEN /\ final' = [written |-> TRUE, rows |-> FinalRows(standardized_categories)]
             /\ log' = Append(log, [op |-> "final"])
             /\ pc' = "done"
             /\ failure' = failure
        ELSE /\ pc' = "failed"
             /\ failure' = "to_csv"
             /\ UNCHANGED <<final, log>>

\* categorizer.py 160-178, called at line 69 of process_csv_file
StandardizeCategories ==
    /\ pc = "stage1_done"
    /\ \E to_csv_ok \in BOOLEAN :
         StandardizeAndSave([k \in 1..current_dataset_size |-> categories[k - 1]], to_csv_ok)
    /\ UNCHANGED <<clientVars, limiterVars, fileVars, input, progress_save_interval,
                   current_dataset_size, processed_indices, contributors, i,
                   new_categories, categories, prev_run, storeVars, configVars,
                   stdVars, existing, pathVars>>

\* validation.py 110-125; isnull().all() is true of a column without rows
validate_categorized_csv(f) ==
    IF ~f.has_category THEN "ValidationError"
    ELSE IF \A k \in 1..Len(f.labels) : f.labels[k] = NaN THEN "ValidationError"
    ELSE "ok"

\* categorizer.py 314-325: what standardize_existing_csv raises before it
\* standardizes, "ok" if nothing
ValidateExisting(f) ==
    IF validate_csv_file(f) # "ok" THEN validate_csv_file(f)
    ELSE IF ~f.parse_ok THEN "ParserError"
    ELSE validate_categorized_csv(f)

\* the cells of the label column of such a file
ExistingLabels ==
    { NaN, Lawyers, <<"L", "a", "w", "y", "e", "r">>, Engineer }

RECURSIVE Columns(_, _)
Columns(cells, n) ==
    IF n = 0 THEN {<<>>}
    ELSE LET shorter == Columns(cells, n - 1)
         IN  shorter \cup {Append(c, x) : c \in {s \in shorter : Len(s) = n - 1}, x \in cells}

ExistingFiles ==
    { GoodExisting(c) : c \in Columns(ExistingLabels, MaxRows) } \cup
    { [GoodExisting(<<Lawyers>>) EXCEPT !.exists = FALSE],
      [GoodExisting(<<Lawyers>>) EXCEPT !.csv_ext = FALSE],
      [GoodExisting(<<Lawyers>>) EXCEPT !.parse_ok = FALSE],
      [GoodExisting(<<Lawyers>>) EXCEPT !.has_category = FALSE] }

\* categorizer.py 303-356
StandardizeExistingCsv ==
    /\ pc = "idle"
    /\ \E f \in ExistingFiles, to_csv_ok \in BOOLEAN :
         /\ existing' = f
         /\ IF ValidateExisting(f) # "ok"
            THEN /\ pc' = ValidateExisting(f)
                 /\ failure' = ValidateExisting(f)
                 /\ UNCHANGED <<final, log>>
            ELSE StandardizeAndSave(f.labels, to_csv_ok)
    /\ UNCHANGED <<clientVars, limiterVars, fileVars, input, progress_save_interval,
                   current_dataset_size, processed_indices, contributors, i,
                   new_categories, categories, prev_run, storeVars, configVars, stdVars,
                   pathVars>>

\* what the service answers in the runs of this specification
TextLawyer == <<"L", "a", "w", "y", "e", "r">>
TextBlank == <<" ">>
Stage2Outcomes ==
    { Response(<<TextCategoryLawyers>>), Response(<<TextEngineer>>),
      Response(<<TextLawyer>>), Response(<<TextBlank>>), Raises(MsgApiError) }

\* the shipped threshold, and the one at which "Lawyer" is still taken for "Lawyers"
Stage2Thresholds == {default_fuzzy_match_threshold, 92}

\* One process that calls process_csv_file or standardize_existing_csv once:
\* no checkpoint file, and a save interval longer than the input, as the
\* shipped 50 is for the inputs of the model
InitStage2 ==
    /\ InitMemory
    /\ InitStandardizerMemory
    /\ max_retries = 1
    /\ file = AbsentFile
    /\ ck_start = AbsentFile
    /\ progress_save_interval = MaxRows + 1
    /\ canonical_categories \in Taxonomies
    /\ fuzzy_match_threshold \in Stage2Thresholds
    /\ matcher \in Matchers

NextStage2 ==
    \/ StartRun
    \/ CallClient
    \/ WaitWith({0}, {0}, {FALSE})
    \/ InvokeWith(Stage2Outcomes, PipelineDurations)
    \/ RecordCategory
    \/ WriteInterim
    \/ CleanupProgress
    \/ StandardizeCategories
    \/ StandardizeExistingCsv

SpecStage2 == InitStage2 /\ [][NextStage2]_vars

(***************************************************************************)
(* One call of process_csv_file from its first line to its return, with    *)
(* the shipped configuration, every save interval and every checkpoint     *)
(* file it may find                                                        *)
(***************************************************************************)
InitRun ==
    /\ InitMemory
    /\ max_retries = 1
    /\ file \in InitFiles \cup {EnvelopeFile([k \in {0} |-> Business], 2, "earlier")}
    /\ ck_start = AbsentFile
    /\ progress_save_interval \in 1..MaxInterval
    /\ ShippedStandardizerConfig
    /\ InitStandardizerMemory

NextRun ==
    \/ StartRun
    \/ CallClient
    \/ WaitWith({0}, {0}, {FALSE})
    \/ InvokeWith(PipelineOutcomes, PipelineDurations)
    \/ RecordCategory
    \/ WriteInterim
    \/ CleanupProgress
    \/ StandardizeCategories

SpecRun == InitRun /\ [][NextRun]_vars

(***************************************************************************)
(* Claims about the classification client                                  *)
(***************************************************************************)
Chars == {"a", "e", "g", "h", "i", "n", "o", "r", "s", "t", "w", "y",
          "E", "L", "O", " ", ":", "C"}
IsString(v) == v \in Seq(Chars)

\* C1: categorize_contributor never raises: whatever the rate limiter and the
\* service do, a call that has ended has returned a string, and a call that
\* ended in the except clause (an exception of the service, of the limiter, or
\* the IndexError of a response with no content element) has returned "Other".
C1_NeverRaises ==
    /\ cpc # "raised"
    /\ cpc = "returned" =>
         /\ IsString(result)
         /\ result # NoResult
         /\ last_outcome \in {"exception", "limiter_exception"} => result = Other

\* a call that ended on an error which does not indicate throttling
C1_Witness ==
    /\ cpc = "returned"
    /\ last_outcome = "exception"
    /\ throttled < invocations
    /\ result = Other

\* C2: when every invocation of the service raised a throttling-indicating
\* error (and the limiter raised nothing), the call has invoked the service
\* exactly max_retries + 1 times and has returned "Other".
C2_AlwaysThrottled ==
    (cpc = "returned" /\ throttled = invocations /\ last_outcome # "limiter_exception") =>
        (invocations = max_retries + 1 /\ result = Other)

C2_Witness ==
    /\ cpc = "returned"
    /\ last_outcome = "exception"
    /\ max_retries = default_max_retries
    /\ throttled = invocations
    /\ invocations = max_retries + 1
    /\ result = Other

\* C3: as soon as an attempt has raised an error that does not indicate
\* throttling, after k throttling errors, the call has returned "Other": the
\* service has been invoked exactly k + 1 times and no further attempt starts.
C3_NonThrottlingReturnsAtOnce ==
    (last_outcome = "exception" /\ throttled < invocations) =>
        /\ cpc = "returned"
        /\ result = Other
        /\ invocations = throttled + 1
        /\ attempt = throttled
        /\ attempt \in 0..max_retries

\* a non-throttling error after two throttling errors: three invocations
C3_Witness ==
    /\ last_outcome = "exception"
    /\ throttled = 2
    /\ invocations = 3
    /\ cpc = "returned"

(***************************************************************************)
(* Claims about stage 1 and the checkpoint                                 *)
(***************************************************************************)
InRun == pc \in {"classify", "interim", "cleanup", "stage1_done", "failed"}

\* the row indices the client was called for in this run, in call order
CallEvents == SelectSeq(log, LAMBDA e : e.op = "call")
CallIndices == [k \in 1..Len(CallEvents) |-> CallEvents[k].index]

\* the label the client returned for row r in this run
ReturnEvents == SelectSeq(log, LAMBDA e : e.op = "return")
ReturnedFor(r) == {ReturnEvents[k].label : k \in {j \in 1..Len(ReturnEvents) :
                                                   ReturnEvents[j].index = r}}

IsPrefix(a, b) == Len(a) <= Len(b) /\ \A k \in 1..Len(a) : a[k] = b[k]

MaxOf(S) == CHOOSE x \in S : \A y \in S : x >= y

\* the checkpoint file the run found when it loaded: its kind, its
\* dataset_size and the number of its entries
FileAtLoad == log[2]

C5_ResumesAfterLastSaved ==
    (InRun /\ prev_run.ended = "crashed" /\ prev_run.rows = current_dataset_size
           /\ ~prev_run.io_failed /\ processed_indices # EmptyMap) =>
        \A k \in 1..Len(CallIndices) : CallIndices[k] > MaxOf(DOMAIN processed_indices)

\* the size a checkpoint file states: dataset_size of an envelope (0 when the
\* key is missing), the number of entries of a legacy mapping
HasStoredSize(f) == f.kind \in {"envelope", "legacy"}
FileStoredSize(f) ==
    IF f.kind = "legacy" THEN f.entries
    ELSE IF f.dataset_size = Missing THEN 0 ELSE f.dataset_size

\* C6: when the size stored in the checkpoint differs from the row count,
\* _load_progress returns the empty mapping and the run is a cold start: it
\* classifies every row, in order, and every label of its interim artifact is
\* the one the client returned for that row in this run, so none of them
\* comes from that checkpoint.
C6_SizeMismatchColdStart ==
    (InRun /\ Len(log) >= 2 /\ HasStoredSize(FileAtLoad)
           /\ FileStoredSize(FileAtLoad) # current_dataset_size) =>
        LET all == Ascending(Rows(current_dataset_size))
        IN  /\ processed_indices = EmptyMap
            /\ log[2].loaded = EmptyMap
            /\ contributors = all
            /\ IsPrefix(CallIndices, all)
            /\ interim.written =>
                 /\ CallIndices = all
                 /\ \A r \in Rows(current_dataset_size) :
                      ReturnedFor(r) = {interim.labels[r + 1]}

\* a cold start over a checkpoint of another size that holds a label
C6_Witness ==
    /\ InRun
    /\ Len(log) >= 2
    /\ FileAtLoad.kind = "envelope"
    /\ FileAtLoad.entries > 0
    /\ FileAtLoad.dataset_size # current_dataset_size
    /\ interim.written

\* two saves that succeeded, for distinct indices and one size, made from no file
TwoSaves ==
    /\ ck_start = AbsentFile
    /\ Len(ck_saves) = 2
    /\ ck_saves[1].ok /\ ck_saves[2].ok
    /\ ck_saves[1].index # ck_saves[2].index
    /\ ck_saves[1].dataset_size = ck_saves[2].dataset_size
    /\ ck_load # NoLoad
    /\ ck_load.read_ok

\* C7: checkpoint round trip: from no file, _save_progress(i, a, N), then
\* _save_progress(j, b, N) with j # i, then _load_progress(N) gives exactly
\* {i: a, j: b}, and _load_progress(M) gives the empty mapping for M # N.
C7_RoundTrip ==
    TwoSaves =>
        IF ck_load.expected = ck_saves[1].dataset_size
        THEN /\ DOMAIN processed_indices = {ck_saves[1].index, ck_saves[2].index}
             /\ processed_indices[ck_saves[1].index] = ck_saves[1].category
             /\ processed_indices[ck_saves[2].index] = ck_saves[2].category
        ELSE processed_indices = EmptyMap

C7_Witness ==
    /\ TwoSaves
    /\ ck_load.expected = ck_saves[1].dataset_size
    /\ ck_saves[1].category = Lawyers
    /\ ck_saves[2].category = Other
    /\ DOMAIN processed_indices = {ck_saves[1].index, ck_saves[2].index}

\* C8 (as claimed): whatever checkpoint file stage 1 finds and whatever
\* checkpoint read, write or delete fails, handling the checkpoint never ends
\* the run: the only exception that ends stage 1 is a failed write of the
\* interim artifact itself.
C8_CheckpointNeverEscalates ==
    pc = "failed" => failure = "to_csv"

LogOps == {log[k].op : k \in 1..Len(log)}

\* C9 (as claimed): a completed stage 1 leaves no checkpoint file, and a run
\* deletes the file only after it has written the interim artifact.
C9_DeletedOnCompletion ==
    /\ pc = "stage1_done" => file.kind = "absent"
    /\ \A k \in 1..Len(log) :
         log[k].op = "delete" => \E j \in 1..(k - 1) : log[j].op = "interim"

\* C9 (amended): a completed stage 1 leaves no checkpoint file unless the
\* removal itself failed; a run removes, or tries to remove, the file only
\* after it has written the interim artifact; and a run that has not yet
\* written the interim artifact has not made a file it found disappear.
C9_DeletedUnlessRemoveFails ==
    /\ pc = "stage1_done" => (file.kind = "absent" \/ "delete_failed" \in LogOps)
    /\ \A k \in 1..Len(log) :
         log[k].op \in {"delete", "delete_failed"} =>
             \E j \in 1..(k - 1) : log[j].op = "interim"
    /\ (InRun /\ Len(log) >= 2 /\ ~interim.written /\ FileAtLoad.kind # "absent") =>
           file.kind # "absent"

\* stage 1 completed and removed a checkpoint file that a save of this run made
C9_Witness ==
    /\ pc = "stage1_done"
    /\ file.kind = "absent"
    /\ "save" \in LogOps
    /\ "delete" \in LogOps

\* the inputs that validation rejects
InvalidInput(f) ==
    \/ ~f.exists
    \/ ~f.isfile
    \/ ~f.csv_ext
    \/ ~f.head_ok
    \/ f.parse_ok /\ (~f.has_name \/ f.nrows = 0 \/ f.all_null)

\* C10: a run on an input that validation rejects has raised ValidationError
\* and has had no side effect: no directory made, no checkpoint read, written
\* or deleted, no classification call, no interim artifact.
C10_ValidationBeforeEffects ==
    (pc # "idle" /\ InvalidInput(input)) =>
        /\ pc = "ValidationError"
        /\ failure = "ValidationError"
        /\ log = <<>>
        /\ cpc = "idle"
        /\ ~interim.written

\* an empty dataset is rejected
C10_Witness ==
    /\ pc = "ValidationError"
    /\ input.nrows = 0
    /\ input.has_name
    /\ log = <<>>

(***************************************************************************)
(* Claims about the taxonomy standardizer                                  *)
(***************************************************************************)
Entries(canonical) == {canonical[k] : k \in 1..Len(canonical)}

\* the highest similarity ratio of a label to the entries of a taxonomy
BestRatio(label, canonical, matcher_) ==
    LET ratios == {Score(label, e, matcher_) : e \in Entries(canonical)}
    IN  CHOOSE r \in ratios : \A q \in ratios : r >= q

IsBlank(label) == Strip(label) = <<>>

\* C11: a label that is exactly an entry of the taxonomy is returned
\* unchanged by the exact-match branch, at every threshold; the fuzzy branch
\* is not taken. The same holds for the second call on a returned entry.
C11_ExactMatchUnchanged ==
    /\ (standardized # NoStd /\ cat \in Entries(canonical_categories)) =>
           standardized = Returned(cat, "exact")
    /\ (again # NoStd /\ standardized.label \in Entries(canonical_categories)) =>
           again = Returned(standardized.label, "exact")

\* an entry standardized at the highest and at the lowest threshold
C11_Witness ==
    /\ cat = Lawyers
    /\ fuzzy_match_threshold \in {0, 100}
    /\ canonical_categories = TaxonomyShipped
    /\ standardized = Returned(Lawyers, "exact")

\* C12: a label that is not blank gets an entry with the best ratio when
\* that ratio reaches the threshold, the threshold itself included, and
\* "Other" when it does not; an empty or all-whitespace label gets "Other".
C12_ThresholdDecides ==
    (standardized # NoStd /\ cat # NaN) =>
        LET best == BestRatio(cat, canonical_categories, matcher)
        IN  IF IsBlank(cat) THEN standardized.label = Other
            ELSE IF best >= fuzzy_match_threshold
            THEN /\ standardized.label \in Entries(canonical_categories)
                 /\ Score(cat, standardized.label, matcher) = best
            ELSE standardized.label = Other

\* a label whose best ratio is exactly the threshold
C12_Witness ==
    /\ standardized # NoStd
    /\ cat = <<"L", "a", "w", "y", "e", "r">>
    /\ BestRatio(cat, canonical_categories, matcher) = fuzzy_match_threshold
    /\ standardized = Returned(Lawyers, "fuzzy")

\* C13: standardizing a standardized label gives the same label, for every
\* taxonomy and threshold.
C13_Idempotent ==
    again # NoStd => again.label = standardized.label

\* C14: every returned label is an entry of the configured taxonomy.
C14_MembershipClosed ==
    (standardized # NoStd /\ standardized.path # "raised") =>
        standardized.label \in Entries(canonical_categories)

(***************************************************************************)
(* Claims about stage 2                                                    *)
(***************************************************************************)
\* C15: standardization never raises, whatever the label column holds once
\* validation has passed, a null cell included; so no run of stage 2 or of
\* standardize_existing_csv ends with an exception of the standardizer, and
\* a run that has passed validation and can write its file has written it.
C15_StandardizationNeverFails ==
    /\ failure # "AttributeError"
    /\ (existing # NoExisting /\ ValidateExisting(existing) = "ok" /\ failure # "to_csv") =>
           final.written

\* C16: when a run is complete, the final artifact has one row per input
\* row, in the input's order and with the input's other columns, and the
\* label of each row is the standardized interim label of that row.
C16_RowByRow ==
    (pc = "done" /\ interim.written) =>
        /\ final.written
        /\ Len(final.rows) = input.nrows
        /\ Len(interim.labels) = input.nrows
        /\ \A k \in 1..Len(final.rows) :
              /\ final.rows[k].row = k - 1
              /\ final.rows[k].label =
                     _standardize_single_category(interim.labels[k], canonical_categories,
                                                  fuzzy_match_threshold, matcher).label

\* a complete run whose rows got different interim labels and different final labels
C16_Witness ==
    /\ pc = "done"
    /\ interim.written
    /\ final.written
    /\ Len(final.rows) = MaxRows
    /\ interim.labels[1] = Engineer
    /\ interim.labels[2] = Lawyers
    /\ final.rows[1].label = Other
    /\ final.rows[2].label = Lawyers

(***************************************************************************)
(* Claims about the rate limiter                                           *)
(***************************************************************************)
\* a wait_if_needed call that returns
WaitReturns == cpc = "wait" /\ cpc' = "invoke"

\* C17: every wait_if_needed call that returns sets last_request_time to the
\* clock, whether it slept or not; a call with attempt 0 that starts less
\* than base_delay after the previous one returned sleeps at least
\* base_delay minus the time elapsed since then; so a call never returns
\* less than base_delay after the previous one.
C17_MinimumSpacing ==
    [][WaitReturns =>
          /\ since_last' = 0
          /\ (attempt = 0 /\ since_last < base_delay) => slept' >= base_delay - since_last
          /\ since_last + slept' >= base_delay]_vars

\* a first attempt that started 1.0 s after the previous call returned has slept
C17_Witness ==
    /\ cpc = "invoke"
    /\ attempt = 0
    /\ slept > 0
    /\ slept < base_delay
    /\ since_last = 0

\* C18: the wait_if_needed call of retry a has slept at least
\* base_delay * 2^a, whatever time had elapsed since the previous call.
C18_ExponentialBackoff ==
    (cpc = "invoke" /\ attempt > 0) => slept >= base_delay * Pow2(attempt)

\* the second retry of a record, about to invoke the service, with the shortest wait
C18_Witness ==
    /\ cpc = "invoke"
    /\ attempt = 2
    /\ waits = <<0, 1, 2>>
    /\ slept = base_delay * 4

(***************************************************************************)
(* Claims about the extraction of the label                                *)
(***************************************************************************)
\* C19: when a call has returned on a response, its result is the trimmed
\* text of the first content element, or, when that text holds the token
\* "Category:", the trimmed text after the last occurrence of the token;
\* the result never holds the token.
C19_LabelAfterLastToken ==
    (cpc = "returned" /\ last_outcome = "response") =>
        LET text == Strip(response[1])
            at == {k \in 1..Len(text) : OccursAt(text, CategoryToken, k)}
        IN  /\ ~Contains(result, CategoryToken)
            /\ IF at = {}
               THEN result = text
               ELSE \E k \in at :
                       /\ \A m \in at : m <= k
                       /\ result = Strip(SubSeq(text, k + Len(CategoryToken), Len(text)))

\* a response whose first text holds the token twice
C19_Witness ==
    /\ cpc = "returned"
    /\ last_outcome = "response"
    /\ response = <<TextTwoTokens>>
    /\ result = Lawyers

(***************************************************************************)
(* Claims about the first save into a checkpoint file                      *)
(***************************************************************************)
\* C20: a successful _save_progress(index, label, dataset_size) on an absent
\* file or on a legacy file (a bare mapping) leaves an envelope with that
\* dataset_size, a created_at stamp of the save and the one entry index: label.
C20_FreshEnvelope ==
    (/\ Len(ck_saves) = 1
     /\ ck_saves[1].ok
     /\ ck_start.kind \in {"absent", "legacy"}) =>
        file = EnvelopeFile(MapSet(EmptyMap, ck_saves[1].index, ck_saves[1].category),
                            ck_saves[1].dataset_size, "now")

(***************************************************************************)
(* Claims about loading a legacy checkpoint                                *)
(***************************************************************************)
\* C21: a legacy file, a bare mapping with k entries, that is read without
\* error is loaded as an envelope of dataset_size k: _load_progress(expected)
\* returns the whole mapping when expected = k and the empty mapping otherwise.
C21_LegacySizeIsEntryCount ==
    (ck_load # NoLoad /\ ck_load.read_ok /\ file.kind = "legacy") =>
        processed_indices =
            IF ck_load.expected = Cardinality(DOMAIN file.categories)
            THEN file.categories
            ELSE EmptyMap

\* a legacy mapping with two entries loaded for a dataset of two rows
C21_Witness ==
    /\ ck_load = [expected |-> 2, read_ok |-> TRUE]
    /\ file.kind = "legacy"
    /\ Cardinality(DOMAIN file.categories) = 2
    /\ processed_indices = file.categories

(***************************************************************************)
(* Claims about the periodic saves and the interim artifact                *)
(***************************************************************************)
SaveEvents == SelectSeq(log, LAMBDA e : e.op = "save")

\* how many classifications of this run had returned after the log entry p
ReturnsUpTo(p) == Cardinality({j \in 1..p : log[j].op = "return"})

\* C22: in a run with save interval N >= 1 the saves are exactly those after
\* the k-th returned classification of the run, for the multiples k of N: a
\* save follows at once the return of its record, which follows its call, and
\* carries the record's index, its label and the row count; there are
\* floor(m / N) saves after m classifications; and a run that found no
\* checkpoint file has none before its first save.
C22_SaveEveryNth ==
    (InRun /\ progress_save_interval >= 1 /\ Len(log) >= 2) =>
        /\ \A p \in 1..Len(log) :
              log[p].op = "save" =>
                  /\ p > 1
                  /\ log[p - 1].op = "return"
                  /\ log[p - 1].index = log[p].index
                  /\ log[p - 1].label = log[p].label
                  /\ log[p].dataset_size = current_dataset_size
                  /\ ReturnsUpTo(p) % progress_save_interval = 0
                  /\ \E j \in 1..(p - 2) : log[j].op = "call" /\ log[j].index = log[p].index
        /\ \A p \in 1..Len(log) :
              (log[p].op = "return" /\ ReturnsUpTo(p) % progress_save_interval = 0) =>
                  /\ p < Len(log)
                  /\ log[p + 1].op = "save"
        /\ Len(SaveEvents) = Len(ReturnEvents) \div progress_save_interval
        /\ (FileAtLoad.kind = "absent" /\ SaveEvents = <<>>) => file.kind = "absent"

\* two records classified with interval 2: no file after the first, one save
\* after the second
C22_Witness ==
    /\ pc = "interim"
    /\ progress_save_interval = 2
    /\ FileAtLoad.kind = "absent"
    /\ Len(ReturnEvents) = 2
    /\ Len(SaveEvents) = 1
    /\ SaveEvents[1].index = 1
    /\ file.kind = "envelope"

\* the positions of the log at which the interim artifact was written
InterimWrites == {p \in 1..Len(log) : log[p].op = "interim"}

\* stage 2 of the run has begun
Stage2Begun ==
    \/ pc = "done"
    \/ "final" \in LogOps
    \/ pc = "failed" /\ failure = "AttributeError"

\* C23: a run writes the interim artifact at most once, and exactly once
\* before stage 2 begins; when it is written every record to classify has
\* returned and the artifact holds for every row the label reused from the
\* checkpoint or the label the client returned; before it only calls, returns
\* and checkpoint saves occur, after it no classification and no save, and
\* while records are being classified the artifact is not written.
C23_InterimOnceAfterStage1 ==
    (Len(log) >= 2) =>
        /\ Cardinality(InterimWrites) <= 1
        /\ interim.written <=> InterimWrites # {}
        /\ pc = "classify" => ~interim.written
        /\ (pc \in {"cleanup", "stage1_done"} \/ Stage2Begun) => interim.written
        /\ \A p \in InterimWrites :
              /\ \A j \in 1..(p - 1) :
                    log[j].op \in {"makedirs", "load", "call", "return", "save"}
              /\ \A j \in (p + 1)..Len(log) :
                    log[j].op \in {"delete", "delete_failed", "final"}
              /\ ReturnsUpTo(p) = Len(contributors)
              /\ DOMAIN interim.labels = 1..current_dataset_size
              /\ \A r \in Rows(current_dataset_size) :
                    IF r \in DOMAIN processed_indices
                    THEN interim.labels[r + 1] = processed_indices[r]
                    ELSE ReturnedFor(r) = {interim.labels[r + 1]}

\* a resumed run of two rows: one label reused, one returned and saved, the
\* artifact written once, then stage 2
C23_Witness ==
    /\ pc = "done"
    /\ DOMAIN processed_indices = {0}
    /\ Len(ReturnEvents) = 1
    /\ "save" \in LogOps
    /\ Cardinality(InterimWrites) = 1
    /\ interim.labels = <<Business, Lawyers>>
    /\ final.written

(***************************************************************************)
(* Claims about _cleanup_progress called on its own                        *)
(***************************************************************************)
\* no save came after the latest cleanup call
CleanupWasLast ==
    /\ ck_cleanups # <<>>
    /\ ck_cleanups[Len(ck_cleanups)].saves = Len(ck_saves)

\* C24 (as claimed): after any number of calls of _cleanup_progress, with or
\* without a file, no call has raised and the checkpoint file is absent.
C24_CleanupLeavesAbsent ==
    CleanupWasLast =>
        /\ \A k \in 1..Len(ck_cleanups) : ~ck_cleanups[k].raised
        /\ file.kind = "absent"

\* C24 (amended): no call of _cleanup_progress raises; a call that finds no
\* file leaves none; a call that finds one leaves none when the removal
\* succeeds and leaves the file as it was when the removal fails; and a call
\* that directly follows a call after which the file was absent changes
\* nothing.
C24_CleanupAbsentUnlessRemoveFails ==
    /\ \A k \in 1..Len(ck_cleanups) :
         LET c == ck_cleanups[k]
         IN  /\ ~c.raised
             /\ c.before.kind = "absent" => c.after = AbsentFile
             /\ (c.before.kind # "absent" /\ c.remove_ok) => c.after = AbsentFile
             /\ (c.before.kind # "absent" /\ ~c.remove_ok) => c.after = c.before
             /\ (k > 1 /\ ck_cleanups[k - 1].saves = c.saves
                       /\ ck_cleanups[k - 1].after = AbsentFile) => c.after = AbsentFile
    /\ CleanupWasLast => file = ck_cleanups[Len(ck_cleanups)].after

\* three calls in a row on a file that is there: the first removal fails, the
\* second succeeds, the third finds nothing
C24_Witness ==
    /\ Len(ck_cleanups) = 3
    /\ ck_saves = <<>>
    /\ ck_cleanups[1].before.kind = "envelope"
    /\ ~ck_cleanups[1].remove_ok
    /\ ck_cleanups[2].before = ck_cleanups[1].before
    /\ ck_cleanups[2].remove_ok
    /\ ck_cleanups[3].before = AbsentFile
    /\ file = AbsentFile

(***************************************************************************)
(* Claims about the paths of the files                                     *)
(***************************************************************************)
\* C25 (as claimed): two calls of process_csv_file on different input
\* files, interleaved in any way, never read, write or delete a checkpoint
\* file at the same path.
C25_DistinctCheckpointFiles ==
    \A a \in accessed, b \in accessed :
        (/\ a.what = "checkpoint" /\ b.what = "checkpoint"
         /\ a.proc # b.proc
         /\ procs[a.proc].input_file # procs[b.proc].input_file) =>
            a.path # b.path

\* the paths claimed for an input whose base name without extension is b
InterimPathOf(b) == <<"d", "a", "t", "a", "/", "i", "n", "t", "e", "r", "i", "m", "/">> \o b \o <<"_", "c", "a", "t", "e", "g", "o", "r", "i", "z", "e", "d", ".", "c", "s", "v">>
FinalPathOf(b) == <<"d", "a", "t", "a", "/", "p", "r", "o", "c", "e", "s", "s", "e", "d", "/">> \o b \o <<"_", "s", "t", "a", "n", "d", "a", "r", "d", "i", "z", "e", "d", ".", "c", "s", "v">>

\* C26: for an input with directory d, base name b and extension e,
\* _auto_generate_output_path gives data/interim/b_categorized.csv for the
\* stage 'categorized', data/processed/b_standardized.csv for 'standardized'
\* and raises ValueError for every other stage; process_csv_file derives the
\* interim path in that way whatever the caller supplies, and writes the
\* final artifact to the caller's output path when there is one, to the
\* derived path otherwise.
C26_PathsFromBaseName ==
    /\ generated # NoGenerated =>
          IF generated.stage = "categorized"
          THEN generated.raises = "none" /\ generated.path = InterimPathOf(generated.base)
          ELSE IF generated.stage = "standardized"
          THEN generated.raises = "none" /\ generated.path = FinalPathOf(generated.base)
          ELSE generated.raises = "ValueError" /\ generated.path = NoPath
    /\ \A r \in Procs :
          /\ procs[r].pc \notin {"idle", "ValidationError"} =>
                procs[r].interim_file = InterimPathOf(procs[r].base)
          /\ procs[r].pc = "returned" =>
                /\ procs[r].final_file =
                      IF procs[r].output_file # NoPath THEN procs[r].output_file
                      ELSE FinalPathOf(procs[r].base)
                /\ \E a \in accessed :
                      a.proc = r /\ a.what = "final" /\ a.path = procs[r].final_file
                /\ \E a \in accessed :
                      a.proc = r /\ a.what = "interim"
                                /\ a.path = InterimPathOf(procs[r].base)

\* one call returned with the caller's output path, another with the path
\* derived from a base name that holds a dot
C26_Witness ==
    /\ procs[1].pc = "returned"
    /\ procs[1].output_file = <<"o", "u", "t", ".", "c", "s", "v">>
    /\ procs[1].final_file = <<"o", "u", "t", ".", "c", "s", "v">>
    /\ procs[1].interim_file = <<"d", "a", "t", "a", "/", "i", "n", "t", "e", "r", "i", "m", "/", "x", "_", "c", "a", "t", "e", "g", "o", "r", "i", "z", "e", "d", ".", "c", "s", "v">>
    /\ procs[2].pc = "returned"
    /\ procs[2].output_file = NoPath
    /\ procs[2].input_file = <<"x", ".", "v", "2", ".", "c", "s", "v">>
    /\ procs[2].final_file = <<"d", "a", "t", "a", "/", "p", "r", "o", "c", "e", "s", "s", "e", "d", "/", "x", ".", "v", "2", "_", "s", "t", "a", "n", "d", "a", "r", "d", "i", "z", "e", "d", ".", "c", "s", "v">>

(***************************************************************************)
(* Claims about standardize_existing_csv                                   *)
(***************************************************************************)
\* C27 (as claimed): a call of standardize_existing_csv calls no client and
\* touches no checkpoint file; it raises ValidationError and writes nothing
\* when the label column is missing or entirely null; and otherwise, for a
\* file that can be read and an output that can be written, it writes the
\* standardized artifact and returns.
C27_StandaloneStandardization ==
    existing # NoExisting =>
        /\ invocations = 0 /\ waits = <<>> /\ cpc = "idle"
        /\ file = AbsentFile
        /\ LogOps \subseteq {"final"}
        /\ (validate_csv_file(existing) = "ok" /\ existing.parse_ok
              /\ validate_categorized_csv(existing) # "ok") =>
                 pc = "ValidationError" /\ ~final.written
        /\ (ValidateExisting(existing) = "ok" /\ failure # "to_csv") =>
                 pc = "done" /\ final.written /\ Len(log) = 1

(***************************************************************************)
(* Claims about labels that differ from an entry in letter case            *)
(***************************************************************************)
\* str.lower()
CaseFold(s) == [k \in 1..Len(s) |-> ToLower(s[k])]

\* C28: at the default threshold 80, a label that is no entry of the
\* taxonomy but equals an entry when letter case is ignored is standardized
\* to that entry by the fuzzy branch, not to the fallback "Other".
C28_CaseOnlyDifference ==
    (/\ standardized # NoStd
     /\ fuzzy_match_threshold = default_fuzzy_match_threshold
     /\ cat \notin Entries(canonical_categories)) =>
        \A e \in Entries(canonical_categories) :
            CaseFold(e) = CaseFold(cat) => standardized = Returned(e, "fuzzy")

\* "LAWYERS" against the shipped taxonomy
C28_Witness ==
    /\ cat = <<"L", "A", "W", "Y", "E", "R", "S">>
    /\ fuzzy_match_threshold = default_fuzzy_match_threshold
    /\ canonical_categories = TaxonomyShipped
    /\ matcher = "Levenshtein"
    /\ standardized = Returned(Lawyers, "fuzzy")

(***************************************************************************)
(* Claims about retries that end in a success, and about termination       *)
(***************************************************************************)
\* the call under way got a response out of which a label was extracted
Succeeded == cpc = "returned" /\ last_outcome = "response"

\* C29: when the service has raised k throttling errors, on the attempts
\* 0..k-1, and has answered on attempt k, the call has returned the label
\* extracted from that answer after exactly k + 1 invocations, with
\* k <= max_retries; and no invocation follows: the next step after a
\* success is a new call, which starts counting from zero.
C29_SuccessAfterThrottling ==
    /\ [](Succeeded =>
             /\ attempt = throttled
             /\ invocations = throttled + 1
             /\ throttled <= max_retries
             /\ waits = [k \in 1..(throttled + 1) |-> k - 1]
             /\ result = ExtractCategory(response[1]))
    /\ [][Succeeded => (cpc' = "wait" /\ invocations' = 0 /\ attempt' = 0)]_vars

\* two throttling errors, then an answer on the last attempt allowed
C29_Witness ==
    /\ Succeeded
    /\ max_retries = 2
    /\ throttled = 2
    /\ invocations = 3
    /\ response = <<TextCategoryLawyers>>
    /\ result = Lawyers

\* C30: whatever the service and the limiter do, a call of
\* categorize_contributor that has started ends, and at every moment it has
\* invoked the service at most max_retries + 1 times and waited on the
\* limiter at most max_retries + 1 times.
C30_Terminates ==
    /\ [](invocations <= max_retries + 1 /\ Len(waits) <= max_retries + 1)
    /\ (cpc \in {"wait", "invoke"}) ~> (cpc \in {"returned", "raised"})

\* a call that needed every attempt and every wait, and has ended
C30_Witness ==
    /\ cpc = "returned"
    /\ max_retries = default_max_retries
    /\ invocations = max_retries + 1
    /\ Len(waits) = max_retries + 1

(***************************************************************************)
(* Claims about the order of waits and invocations                         *)
(***************************************************************************)
\* C31: within one call the limiter is asked with the attempts 0, 1, 2, ...
\* in order; every invocation of the service comes after exactly one wait
\* made since the previous invocation, the wait of the current attempt; and
\* a new call starts at attempt 0 with no wait made, whatever the outcome
\* of the call before it.
C31_OneWaitPerInvocation ==
    /\ [](/\ waits = [k \in 1..Len(waits) |-> k - 1]
          /\ cpc = "wait" => (Len(waits) = invocations /\ attempt = invocations)
          /\ cpc = "invoke" => (Len(waits) = invocations + 1 /\ attempt = invocations)
          /\ cpc = "returned" => Len(waits) - invocations \in {0, 1})
    /\ [][(invocations' = invocations + 1) =>
              (cpc = "invoke" /\ waits[Len(waits)] = attempt)]_vars
    /\ [][(cpc \in {"idle", "returned"} /\ cpc' = "wait") =>
              (attempt' = 0 /\ waits' = <<>> /\ invocations' = 0)]_vars

\* the third invocation of a call is due, after the waits for 0, 1 and 2
C31_Witness ==
    /\ cpc = "invoke"
    /\ attempt = 2
    /\ invocations = 2
    /\ waits = <<0, 1, 2>>

(***************************************************************************)
(* Claims about saves into an existing envelope                            *)
(***************************************************************************)
\* the direct saves made so far all read and wrote the file
AllSavesOk == \A k \in 1..Len(ck_saves) : ck_saves[k].ok

\* the label the latest direct save stored for index x
LastSavedFor(x) ==
    LET at == {k \in 1..Len(ck_saves) : ck_saves[k].index = x}
    IN  ck_saves[CHOOSE k \in at : \A j \in at : k >= j].category

\* C32: saves into an enveloped checkpoint are incremental: after any
\* successful saves the envelope holds the entries it had plus the saved
\* indices, each saved index with the label of its latest save, every other
\* entry as it was, and the stored dataset_size and created_at unchanged,
\* whatever dataset_size the saves were called with; and a successful save
\* into an envelope never removes an index.
C32_IncrementalAppend ==
    /\ []((ck_start.kind = "envelope" /\ ck_saves # <<>> /\ AllSavesOk) =>
             /\ file.kind = "envelope"
             /\ file.dataset_size = ck_start.dataset_size
             /\ file.created_at = ck_start.created_at
             /\ DOMAIN file.categories =
                    DOMAIN ck_start.categories \cup
                    {ck_saves[k].index : k \in 1..Len(ck_saves)}
             /\ \A x \in DOMAIN file.categories :
                    file.categories[x] =
                        IF \E k \in 1..Len(ck_saves) : ck_saves[k].index = x
                        THEN LastSavedFor(x)
                        ELSE ck_start.categories[x])
    /\ [][(/\ file.kind = "envelope"
           /\ Len(ck_saves') = Len(ck_saves) + 1
           /\ ck_saves'[Len(ck_saves')].ok) =>
              (/\ DOMAIN file.categories \subseteq DOMAIN file'.categories
               /\ \A x \in DOMAIN file.categories :
                     x # ck_saves'[Len(ck_saves')].index =>
                         file'.categories[x] = file.categories[x])]_vars

\* two saves into the envelope of a three-row dataset, made with another
\* dataset size: one new index, one index written over
C32_Witness ==
    /\ ck_start = EnvelopeFile([k \in {1} |-> Business], 3, "earlier")
    /\ Len(ck_saves) = 2
    /\ AllSavesOk
    /\ ck_saves[1].index = 0 /\ ck_saves[1].dataset_size = 2
    /\ ck_saves[2].index = 1 /\ ck_saves[2].category = Lawyers
    /\ DOMAIN file.categories = {0, 1}
    /\ file.categories[1] = Lawyers
    /\ file.dataset_size = 3

(***************************************************************************)
(* Claims about entries that share the best ratio                          *)
(***************************************************************************)
\* the positions of the highest of the scores
Highest(scores) ==
    {k \in 1..Len(scores) : \A j \in 1..Len(scores) : scores[k] >= scores[j]}

\* the positions of the entries that score best for the label
TiedBest(label, canonical, matcher_) ==
    Highest([k \in 1..Len(canonical) |-> Score(label, canonical[k], matcher_)])

\* C33: whenever the fuzzy branch returns an entry, it is the entry at the
\* lowest position of the taxonomy among those that share the best ratio.
C33_FirstOfTied ==
    (standardized # NoStd /\ standardized.path = "fuzzy") =>
        LET tied == TiedBest(cat, canonical_categories, matcher)
        IN  standardized.label =
                canonical_categories[CHOOSE k \in tied : \A j \in tied : k <= j]

\* "awyers" scores 92 against "Sawyers" and against "Lawyers": the one that
\* comes first is returned
C33_Witness ==
    /\ cat = <<"a", "w", "y", "e", "r", "s">>
    /\ canonical_categories = TaxonomySawyersFirst
    /\ fuzzy_match_threshold = default_fuzzy_match_threshold
    /\ Cardinality(TiedBest(cat, canonical_categories, matcher)) = 2
    /\ standardized = Returned(Sawyers, "fuzzy")

(***************************************************************************)
(* Claims about the request sent for a record                              *)
(***************************************************************************)
\* a cell that is null, empty or holds only whitespace
IsNullOrBlank(value) == value = NaN \/ Strip(value) = <<>>

\* what the claim says is sent for a cell
SentFor(value) == IF IsNullOrBlank(value) THEN NotProvided ELSE Strip(value)

\* C34: while the client works on a record, the request holds 'Not
\* provided' for an employer or occupation cell that is null, empty or
\* whitespace-only, the trimmed value for any other cell, and never an
\* empty string.
C34_NotProvidedForBlank ==
    (pc = "classify" /\ cpc \in {"wait", "invoke", "returned"}) =>
        LET row == Dataset(contributors[i + 1])
        IN  /\ request.employer = SentFor(row.employer)
            /\ request.occupation = SentFor(row.occupation)
            /\ request.employer # <<>>
            /\ request.occupation # <<>>

\* the request for row 1, whose employer is empty and whose occupation is
\* blanks, after the request for row 0 was sent with the trimmed employer
C34_Witness ==
    /\ pc = "classify"
    /\ cpc = "invoke"
    /\ contributors = <<0, 1>>
    /\ i = 1
    /\ Dataset(1).occupation = <<" ", " ">>
    /\ request.employer = NotProvided
    /\ request.occupation = NotProvided

(***************************************************************************)
(* Claims about the loop over the records (categorizer.py 134-158)         *)
(***************************************************************************)
\* the records are classified and the label column is filled in
ColumnFilled == pc \in {"interim", "cleanup", "stage1_done"}

\* the rows whose handling raised: line 155 logs each of them
ErrorRows == {log[k].index : k \in {j \in 1..Len(log) : log[j].op = "error"}}

\* the rows that were handed to the client
CalledRows == {log[k].index : k \in {j \in 1..Len(log) : log[j].op = "call"}}

\* the label the handling of row r produced: what the client returned for
\* it, and "Other" when the call itself raised
Produced(r) ==
    LET returns == {k \in 1..Len(log) : log[k].op = "return" /\ log[k].index = r}
    IN  IF returns = {} THEN Other ELSE log[CHOOSE k \in returns : TRUE].label

\* C35: when stage 1 has gone through the records, every record whose
\* handling raised an exception has the label "Other" in the label column,
\* and every record still to classify was handed to the client, whatever
\* was raised before it.
C35_BadRecordGetsOther ==
    ColumnFilled =>
        /\ \A r \in ErrorRows : categories[r] = Other
        /\ \A k \in 1..Len(contributors) : contributors[k] \in CalledRows

\* C36: the loop holds one label per contributor handled so far, the k-th
\* label being the one produced for the k-th contributor, and every row
\* that was classified in this run has that label in the interim file.
C36_OneLabelPerContributor ==
    /\ (pc = "classify" \/ ColumnFilled) =>
          /\ Len(new_categories) = i
          /\ \A k \in 1..i : new_categories[k] = Produced(contributors[k])
    /\ (ColumnFilled /\ interim.written) =>
          \A k \in 1..Len(contributors) :
              interim.labels[contributors[k] + 1] = Produced(contributors[k])

(***************************************************************************)
(* Claims about the checkpoint across runs and dataset changes             *)
(***************************************************************************)
\* C37: whenever a run saves an entry to the checkpoint, the envelope that
\* holds the entry afterwards has the dataset_size the save was called
\* with as its stored dataset_size; since a later save never changes the
\* stored size of an envelope, every entry of every envelope was then
\* written by a save with the envelope's size.
C37_EntriesMatchEnvelopeSize ==
    [][(/\ Len(log') = Len(log) + 2
        /\ log'[Len(log')].op = "save"
        /\ log'[Len(log')].ok) =>
           (/\ file'.kind = "envelope"
            /\ log'[Len(log')].index \in DOMAIN file'.categories
            /\ file'.dataset_size = log'[Len(log')].dataset_size)]_vars

\* C38: when the latest direct call _save_progress(i, a, N) read and wrote
\* the file and _load_progress(N) is then called and reads the file, the
\* mapping it returns holds i -> a, whatever the file held before the save.
C38_SaveThenLoad ==
    (/\ ck_saves # <<>>
     /\ ck_saves[Len(ck_saves)].ok
     /\ ck_load # NoLoad
     /\ ck_load.read_ok
     /\ ck_load.expected = ck_saves[Len(ck_saves)].dataset_size) =>
        /\ ck_saves[Len(ck_saves)].index \in DOMAIN processed_indices
        /\ processed_indices[ck_saves[Len(ck_saves)].index] =
               ck_saves[Len(ck_saves)].category

\* C39: when a process is terminated during a checkpoint save, a load of
\* the file it leaves, for any expected size, returns what a load before the
\* save would have returned, or that plus the entry being saved: nothing
\* that was persisted before is lost.
C39_KilledSaveKeepsProgress ==
    [][(prev_run.ended = "none" /\ prev_run'.ended = "crashed") =>
          \A expected \in 0..MaxRows :
              LET before == _load_progress(file, expected, TRUE)
                  after == _load_progress(file', expected, TRUE)
                  saving == ck_saves'[Len(ck_saves')]
              IN  \/ after = before
                  \/ after = MapSet(before, saving.index, saving.category)]_vars

====
